---- MODULE Spec2Model ----
(***************************************************************************)
(* Model of the KEC chat gateway (server/src/index.js): the access policy  *)
(* applied to a request, the provider store with its watcher and sync      *)
(* pass, the supervisor of the backing OpenCode process, and one streaming *)
(* chat turn (POST /api/chat/stream).                                      *)
(***************************************************************************)
EXTENDS Naturals, Integers, Sequences, FiniteSets, TLC

VARIABLES
  \* ---- access policy: one request through the auth middleware ----
  mcpConfigStore,   \* Map name -> config (only the enabled flag matters here)
  req,              \* the request: authorization, x-role, x-user-role, x-allowed-servers
  authUser,         \* req.authUser as set by the middleware
  polPc,            \* "recv" -> "authed" -> "scoped"
  role,             \* deriveRole(req)
  allowedServers,   \* allowedMcpServersForRole(role, req)
  toolsReq,         \* GET /api/mcp/tools for this request: its position and its outcome
  body,             \* the prompt body the chat handler builds: its tools and system text
  admin,            \* POST /api/mcp/add: its position, its input, its answer, the store file
  \* ---- the default chat model ----
  catalog,          \* what client.config.providers() answers at this moment
  catalogChanges,   \* how many times the runtime's catalog has changed
  resolvedDefaultChatModel, \* the memoized pair, or NoModel
  resolvers,        \* the calls of getDefaultChatModel: position, result
  \* ---- process supervisor ----
  OPENCODE_PORT_RAW, \* process.env.OPENCODE_PORT as read at start-up
  opencodePromise,  \* NoPromise or the id of the attempt whose promise is cached
  attempts,         \* attempt id -> record of the attempt (pc, result, child)
  opencodeProc,     \* NoChild or the attempt id whose child is referenced
  opencodeBaseUrl,  \* NoUrl or the attempt id whose URL was cached
  children,         \* the child processes spawned so far: who spawned each, its state
  callers,          \* caller id -> what the caller holds
  \* ---- one streaming turn ----
  pc,               \* position of the handler
  input,            \* the request body and the environment's answers chosen so far
  out,              \* the outward NDJSON event sequence
  closed,           \* res.end() was called
  sessionId,
  signalAborted,    \* abort.signal.aborted
  abortCause,       \* "none" | "close" | "deadline"
  timerArmed,       \* the 120 s timer is pending
  sawDelta, aborted, sessionError, promptError,
  seenToolCalls,
  promptState,      \* "none" | "pending" | "resolved" | "rejected"
  inbound,          \* the events the loop consumed that name this session or none, in order
  hist,             \* history of the turn's decisions (for stating the claims)
  \* ---- the provider store, its watcher and the sync pass ----
  storeOrder,       \* the keys of mcpConfigStore in insertion order
  lastRead,         \* the servers object the latest loadMcpStore found in the file (history)
  mcpToolPolicy,    \* "null" or the tools object of the store file
  mcpWatcherStarted,
  watchSlots,       \* one per debounce closure created: its watcher, its pending timers
  reloads,          \* the reload callbacks in flight, counted by the await they are at
  mcpSyncInFlight,  \* the sync pass in flight: the entries it has still to push
  bootPc,           \* start-up: "load" -> "watch" -> "up"
  storeHist         \* history of the watcher and of the last sync pass (for the claims)

resolverVars == <<catalog, catalogChanges, resolvedDefaultChatModel, resolvers>>
polVars == <<mcpConfigStore, req, authUser, polPc, role, allowedServers, body, admin, toolsReq, resolverVars>>
supVars == <<OPENCODE_PORT_RAW, opencodePromise, attempts, opencodeProc, opencodeBaseUrl,
             children, callers>>
turnVars == <<pc, input, out, closed, sessionId, signalAborted, abortCause, timerArmed,
              sawDelta, aborted, sessionError, promptError, seenToolCalls, promptState,
              inbound, hist>>
storeVars == <<storeOrder, lastRead, mcpToolPolicy, mcpWatcherStarted, watchSlots, reloads,
               mcpSyncInFlight, bootPc, storeHist>>
vars == <<polVars, supVars, turnVars, storeVars>>

(***************************************************************************)
(* Bounds of the model.                                                    *)
(***************************************************************************)
MaxTokenList == 2    \* longest allowedServers array in a token payload
MaxHeaderList == 2   \* most comma-separated segments in X-Allowed-Servers
MaxCallers == 3      \* calls of getOpencode (each may start one attempt)
MaxEvents == 2       \* inbound events of one turn before its session.idle
MaxParts == 2        \* parts of the last message returned by a fetch
MaxFileEntries == 2  \* entries of the `servers` object of a store file
MaxArrayLen == 1     \* elements of a store file whose `servers` is an array
MaxWatchRequests == 2 \* calls of startMcpStoreWatcher
MaxFsEvents == 2     \* filesystem events delivered to the watcher
MaxTools == 2        \* tools a provider's listTools returns
MaxProviders == 2    \* providers of the runtime's catalog
MaxModels == 2       \* models of the chosen provider
MaxResolvers == 3    \* calls of getDefaultChatModel
MaxCatalogChanges == 1 \* changes of the runtime's catalog

Range(s) == {s[i] : i \in 1..Len(s)}

SeqsUpTo(S, n) == UNION {[1..k -> S] : k \in 0..n}

RECURSIVE SelectSeqBy(_, _)
\* Array.prototype.filter with the membership test `keep`
SelectSeqBy(s, keep) ==
  IF s = <<>> THEN <<>>
  ELSE (IF Head(s) \in keep THEN <<Head(s)>> ELSE <<>>) \o SelectSeqBy(Tail(s), keep)

RECURSIVE Dedup(_)
\* Array.from(new Set(arr)): first occurrences, in order
Dedup(s) ==
  IF s = <<>> THEN <<>>
  ELSE LET d == Dedup(SubSeq(s, 1, Len(s) - 1))
       IN IF s[Len(s)] \in Range(d) THEN d ELSE Append(d, s[Len(s)])

(***************************************************************************)
(* ACCESS POLICY                                                           *)
(***************************************************************************)
ServerNames == {"student_server_2022", "student_server_2024", "faculty_server"}

\* String.prototype.trim on the strings the model uses
Trim(s) ==
  CASE s = " student_server_2022 " -> "student_server_2022"
    [] s = " faculty_server" -> "faculty_server"
    [] s = " " -> ""
    [] OTHER -> s

\* String.prototype.toUpperCase on the role strings the model uses
ToUpperCase(s) ==
  CASE s = "admin" -> "ADMIN"
    [] s = "faculty" -> "FACULTY"
    [] s = "Student" -> "STUDENT"
    [] s = "guest" -> "GUEST"
    [] OTHER -> s

RawTokenNames == {"faculty_server", " student_server_2022 ", ""}
RawHeaderSegments == {" faculty_server", "student_server_2024", " "}
RawTokenRoles == {"ADMIN", "faculty", "Student", "guest", ""}
RawHeaderRoles == {"", "admin", "FACULTY"}

\* The Authorization header: none, a token jwt.verify rejects, or a verified payload
NoBearer == [kind |-> "absent", sub |-> "", email |-> "", role |-> "",
             allowedIsArray |-> FALSE, allowedServers |-> <<>>]

BadToken == [NoBearer EXCEPT !.kind = "bad-token"]

Payloads ==
  [kind : {"payload"}, sub : {"7"}, email : {"a@kongu.edu"}, role : RawTokenRoles,
   allowedIsArray : {TRUE}, allowedServers : SeqsUpTo(RawTokenNames, MaxTokenList)]
  \cup [kind : {"payload"}, sub : {"7", "NaN"}, email : {"a@kongu.edu", " "},
        role : {"ADMIN", ""}, allowedIsArray : {FALSE}, allowedServers : {<<>>}]

\* x-allowed-servers is given as its comma-separated segments; <<>> is no header
Requests ==
  [authorization : {NoBearer, BadToken} \cup Payloads,
   xRole : RawHeaderRoles,
   xUserRole : {"", "admin"},
   xAllowedServers : SeqsUpTo(RawHeaderSegments, MaxHeaderList)]

\* Every provider present; each either without an enabled flag or with enabled: false
Stores == [ServerNames -> [enabled : {"unset", "false"}]]

\* null, as a value of req.authUser
NoUser == [ok |-> FALSE, userId |-> "", email |-> "", role |-> "", allowedServers |-> <<>>]

\* null, as a value of an allow-list
NoList == [some |-> FALSE, list |-> <<>>]

SomeList(l) == [some |-> TRUE, list |-> l]

TrimAll(s) == [i \in 1..Len(s) |-> Trim(s[i])]

\* .filter(Boolean) on an array of strings
FilterBoolean(s) == SelectSeqBy(s, Range(s) \ {""})

deriveAuthUser(r) ==
  IF r.authorization.kind # "payload" THEN NoUser
  ELSE LET payload == r.authorization
           email == Trim(payload.email)
           allowed == IF payload.allowedIsArray
                        THEN FilterBoolean(TrimAll(payload.allowedServers))
                        ELSE <<>>
       IN IF payload.sub = "NaN" \/ email = "" THEN NoUser
          ELSE [ok |-> TRUE, userId |-> payload.sub, email |-> email,
                role |-> ToUpperCase(Trim(payload.role)), allowedServers |-> allowed]

deriveRole(au, r) ==
  IF au.ok /\ au.role \in {"ADMIN", "FACULTY", "STUDENT"} THEN au.role
  ELSE LET headerRole == ToUpperCase(IF r.xRole # "" THEN r.xRole ELSE r.xUserRole)
       IN IF headerRole \in {"ADMIN", "FACULTY"} THEN headerRole ELSE "STUDENT"

listEnabledMcpServers(store) ==
  {n \in DOMAIN store : store[n].enabled # "false"}

parseAllowedServersHeader(r) ==
  LET parsed == FilterBoolean(TrimAll(r.xAllowedServers))
  IN IF parsed = <<>> THEN NoList ELSE SomeList(Dedup(parsed))

roleDefaultMcpServers(rl) ==
  IF rl = "ADMIN" THEN <<"student_server_2022", "student_server_2024", "faculty_server">>
  ELSE IF rl = "FACULTY" THEN <<"faculty_server">>
  ELSE <<"student_server_2022", "student_server_2024">>

\* Array.isArray(req.authUser?.allowedServers) ? req.authUser.allowedServers : null
tokenAllowedOf(au) == IF au.ok THEN SomeList(au.allowedServers) ELSE NoList

allowedMcpServersForRole(rl, au, r, store) ==
  LET roleDefaults == SelectSeqBy(roleDefaultMcpServers(rl), listEnabledMcpServers(store))
      tokenAllowed == tokenAllowedOf(au)
      headerAllowed == parseAllowedServersHeader(r)
  IN IF tokenAllowed.some /\ Len(tokenAllowed.list) > 0
       THEN SelectSeqBy(roleDefaults, Range(tokenAllowed.list))
     ELSE IF ~headerAllowed.some THEN roleDefaults
     ELSE SelectSeqBy(roleDefaults, Range(headerAllowed.list))

PolInit ==
  /\ mcpConfigStore \in Stores
  /\ req \in Requests
  /\ authUser = NoUser
  /\ polPc = "recv"
  /\ role = "none"
  /\ allowedServers = <<>>

\* app.use((req, _res, next) => { req.authUser = deriveAuthUser(req); next(); })
AuthMiddleware ==
  /\ polPc = "recv"
  /\ authUser' = deriveAuthUser(req)
  /\ polPc' = "authed"
  /\ UNCHANGED <<mcpConfigStore, req, role, allowedServers, body, admin, toolsReq, resolverVars,
                 supVars, turnVars, storeVars>>

\* const role = deriveRole(req); ... allowedMcpServersForRole(role, req)
ScopeRequest ==
  /\ polPc = "authed"
  /\ role' = deriveRole(authUser, req)
  /\ allowedServers' = allowedMcpServersForRole(deriveRole(authUser, req), authUser, req, mcpConfigStore)
  /\ polPc' = "scoped"
  /\ UNCHANGED <<mcpConfigStore, req, authUser, toolsReq, body, admin, resolverVars,
                 supVars, turnVars, storeVars>>

(***************************************************************************)
(* The prompt body of a chat turn: base instructions and role amendments   *)
(***************************************************************************)
NoBody == [tools |-> "unset", system |-> <<>>]

\* role === "ADMIN" ? "ADMIN" : role === "FACULTY" ? "FACULTY" : "STUDENT"
roleLabel(rl) == IF rl \in {"ADMIN", "FACULTY"} THEN rl ELSE "STUDENT"

\* The body as the handler builds it: body.system as the sequence of the texts appended
\* to it, body.tools as the policy object or undefined
buildBody(rl, policy, allowed) ==
  LET base == <<"KEC_SYSTEM_PROMPT", "never-searched-the-web">>
      privileged == rl \in {"FACULTY", "ADMIN"} /\ policy # "null"
      s1 == IF privileged THEN base ELSE Append(base, "answering-for-a-STUDENT")
      s2 == IF Len(allowed) > 0 THEN Append(s1, "servers-for-" \o roleLabel(rl)) ELSE s1
  IN [tools |-> IF policy = "null" THEN "undefined" ELSE policy, system |-> s2]

\* const body = {...}; body.system += ...; the role branch; the allowed-servers guidance
BuildBody ==
  /\ polPc = "scoped"
  /\ body' = buildBody(role, mcpToolPolicy, allowedServers)
  /\ polPc' = "built"
  /\ UNCHANGED <<mcpConfigStore, req, authUser, role, allowedServers, admin, toolsReq,
                 resolverVars,
                 supVars, turnVars, storeVars>>

(***************************************************************************)
(* GET /api/mcp/tools: the tools of one provider, filtered for the role    *)
(***************************************************************************)
\* The trimmed `name` query parameter: a provider name and an instance suffix
QueryNames ==
  [base : {"", "faculty_server", "student_server_2022", "ghost"}, suffix : {"", ":1", ":x"}]

nameOf(q) == q.base \o q.suffix

\* const m = name.match(/^(.*):\d+$/); return m ? m[1] : name
baseName(q) == IF q.suffix = ":1" THEN q.base ELSE nameOf(q)

\* A tool as listTools returns it: its server field and its id, the id given as its
\* pieces (runs of other characters, the separators "/" and ":", blanks " ")
Tool(server, id) == [server |-> server, id |-> id]

Tools ==
  {Tool("student_server_2022", <<"read">>),
   Tool(" faculty_server", <<"student_server_2022", "/", "x">>),
   Tool(" ", <<"faculty_server", "/", "read">>),
   Tool("", <<" ", "read", " ">>),
   Tool("", <<" ", "student_server_2024", ":", "q">>),
   Tool("", <<"/", "x">>)}

RECURSIVE TrimPieces(_)
\* id.trim()
TrimPieces(id) ==
  IF id = <<>> THEN id
  ELSE IF Head(id) = " " THEN TrimPieces(Tail(id))
  ELSE IF id[Len(id)] = " " THEN TrimPieces(SubSeq(id, 1, Len(id) - 1))
  ELSE id

RECURSIVE FirstPart(_)
\* trimmed.split(/[/:]/)[0]
FirstPart(id) ==
  IF id = <<>> \/ Head(id) \in {"/", ":"} THEN ""
  ELSE Head(id) \o FirstPart(Tail(id))

\* parseServerNameFromId; null is given as "" (its callers only test `if (parsed)`)
parseServerNameFromId(id) ==
  LET trimmed == TrimPieces(id)
  IN IF trimmed = <<>> THEN ""
     ELSE IF Range(trimmed) \cap {"/", ":"} = {} THEN ""
     ELSE FirstPart(trimmed)

\* extractToolServer for a tool object; null is given as ""
extractToolServer(tool) ==
  IF Trim(tool.server) # "" THEN Trim(tool.server)
  ELSE parseServerNameFromId(tool.id)

\* if (!server) return true; return allowList.has(server)
KeepsToolOnlyIfListed(server, allowList) == server \in allowList

KeepsTool(server, allowList) == server = "" \/ server \in allowList

\* filterToolsForRole(role, tools, allowedServers), allowedServers an array
filterToolsForRole(rl, tools, allowed) ==
  IF rl \in {"FACULTY", "ADMIN"} THEN tools
  ELSE LET allowList == Range(FilterBoolean(TrimAll(allowed)))
           Keep(tool) == KeepsTool(extractToolServer(tool), allowList)
       IN SelectSeq(tools, Keep)

\* No GET /api/mcp/tools is in progress
NoListing ==
  [pc |-> "none", name |-> [base |-> "", suffix |-> ""], status |-> 0, connected |-> FALSE,
   tools |-> <<>>, result |-> <<>>]

\* res.status(code).json(...); return
Respond(code) == [toolsReq EXCEPT !.pc = "done", !.status = code]

\* The handler up to `await getOpencode()`: role and allowedServers are those of
\* ScopeRequest, then the name is read
ToolsRequest ==
  /\ polPc = "scoped" /\ toolsReq.pc = "none"
  /\ \E q \in QueryNames :
       toolsReq' = IF nameOf(q) = "" THEN [Respond(400) EXCEPT !.name = q]
                   ELSE [toolsReq EXCEPT !.pc = "acquire", !.name = q]
  /\ UNCHANGED <<mcpConfigStore, req, authUser, polPc, role, allowedServers, body, admin, resolverVars,
                 supVars, turnVars, storeVars>>

\* `const { client } = await getOpencode()`: destructuring null throws, the catch
\* answers 500
ToolsAcquired ==
  /\ toolsReq.pc = "acquire"
  /\ \E handle \in BOOLEAN :
       toolsReq' = IF handle THEN [toolsReq EXCEPT !.pc = "configs"] ELSE Respond(500)
  /\ UNCHANGED <<mcpConfigStore, req, authUser, polPc, role, allowedServers, body, admin, resolverVars,
                 supVars, turnVars, storeVars>>

\* `await getMcpConfigsFromOpencode(client)` settles: it throws, or the runtime's
\* configuration holds the name (or base name) or not; then the 404 and 403 checks
ToolsConfigs ==
  /\ toolsReq.pc = "configs"
  /\ \E fromOpencode \in {"threw", "config", "undefined"} :
       LET q == toolsReq.name
           fromStore == \/ nameOf(q) \in DOMAIN mcpConfigStore
                        \/ baseName(q) # nameOf(q) /\ baseName(q) \in DOMAIN mcpConfigStore
       IN toolsReq' =
            IF fromOpencode = "threw" THEN Respond(500)
            ELSE IF ~fromStore /\ fromOpencode = "undefined" THEN Respond(404)
            ELSE IF baseName(q) \notin Range(allowedServers) THEN Respond(403)
            ELSE [toolsReq EXCEPT !.pc = "connect"]
  /\ UNCHANGED <<mcpConfigStore, req, authUser, polPc, role, allowedServers, body, admin, resolverVars,
                 supVars, turnVars, storeVars>>

\* `await listMcpToolsFromConfig(name, config)` settles after client.connect: it
\* throws, or returns the provider's tools, which are filtered and sent
ToolsListed ==
  /\ toolsReq.pc = "connect"
  /\ \E threw \in BOOLEAN :
       IF threw THEN toolsReq' = [Respond(500) EXCEPT !.connected = TRUE]
       ELSE \E tools \in SeqsUpTo(Tools, MaxTools) :
              toolsReq' = [Respond(200) EXCEPT
                             !.connected = TRUE, !.tools = tools,
                             !.result = filterToolsForRole(role, tools, allowedServers)]
  /\ UNCHANGED <<mcpConfigStore, req, authUser, polPc, role, allowedServers, body, admin, resolverVars,
                 supVars, turnVars, storeVars>>

(***************************************************************************)
(* THE DEFAULT CHAT MODEL: getDefaultChatModel                             *)
(***************************************************************************)
CHAT_DEFAULT_PROVIDER_ID == "opencode"
CHAT_DEFAULT_MODEL_ID == "kimi-k2.5-free"

\* null, as a value of resolvedDefaultChatModel and of a call's result
NoModel == [providerID |-> "", modelID |-> ""]

\* Providers of a catalog, by id and name (absent fields are "")
ProviderHeads ==
  {[id |-> "opencode", name |-> ""], [id |-> "OpenCode Zen", name |-> ""],
   [id |-> "", name |-> "opencode-local"], [id |-> "anthropic", name |-> "Anthropic"]}

\* Models of a provider, by id and name
CatalogModels ==
  {[id |-> "kimi-k2.5-free", name |-> "free"], [id |-> "m1", name |-> "Kimi K2.5"],
   [id |-> "kimi-2.5", name |-> "x"], [id |-> "m2", name |-> "plain"],
   [id |-> "m3", name |-> "plain"], [id |-> "", name |-> "Kimi 2.5"]}

\* Sequences without repetition
Injective(q) == \A i, j \in 1..Len(q) : i # j => q[i] # q[j]

\* The payloads of client.config.providers(): the providers in order, the models each
\* of them lists and the default model id each of them declares ("" for none)
Catalogs ==
  [providers : {q \in SeqsUpTo(ProviderHeads, MaxProviders) : Injective(q)},
   models : {q \in SeqsUpTo(CatalogModels, MaxModels) : Injective(q)},
   default : {"", "m3"}]

EmptyCatalog == [providers |-> <<>>, models |-> <<>>, default |-> ""]

\* What the runtime's catalog may become while the gateway runs
LaterCatalogs ==
  {EmptyCatalog,
   [providers |-> <<[id |-> "anthropic", name |-> "Anthropic"]>>,
    models |-> <<[id |-> "m2", name |-> "plain"]>>, default |-> ""]}

\* /opencode/i.test(str) on the strings the model uses
IsRuntimeName(str) == str \in {"opencode", "OpenCode Zen", "opencode-local"}

\* /kimi/i.test(str) && /(2\.?5|k2\.?5)/i.test(str) on the strings the model uses
IsPreferredName(str) == str \in {"kimi-k2.5-free", "Kimi K2.5", "kimi-2.5", "Kimi 2.5"}

\* Array.prototype.find, by index: the first position whose element is in `hits`, or 0
FindIndex(q, hits) ==
  IF \E i \in 1..Len(q) : q[i] \in hits
    THEN CHOOSE i \in 1..Len(q) : q[i] \in hits /\ \A j \in 1..(i - 1) : q[j] \notin hits
    ELSE 0

\* a || b on two results of find
OrElseReversed(a, b) == IF b # 0 THEN b ELSE a

OrElse(a, b) == IF a # 0 THEN a ELSE b

\* list.filter((m) => m && typeof m === "object" && m.id)
normalizeModelList(models) == LET HasId(m) == m.id # "" IN SelectSeq(models, HasId)

\* The body of getDefaultChatModel after the catalog's answer
ResolveFrom(cat) ==
  LET providers == cat.providers
      matchesId == {p \in Range(providers) : p.id = CHAT_DEFAULT_PROVIDER_ID}
      matchesName == {p \in Range(providers) :
                        IsRuntimeName(IF p.id # "" THEN p.id ELSE p.name)}
      at == OrElse(OrElse(FindIndex(providers, matchesId), FindIndex(providers, matchesName)), 1)
  IN IF providers = <<>> \/ providers[at].id = "" THEN NoModel
     ELSE LET models == normalizeModelList(cat.models)
              all == Range(models)
              preferredById == FindIndex(models, {m \in all : m.id = CHAT_DEFAULT_MODEL_ID})
              preferredByName ==
                OrElse(FindIndex(models, {m \in all : IsPreferredName(m.name)}),
                       FindIndex(models, {m \in all : IsPreferredName(m.id)}))
              providerDefault ==
                IF cat.default # "" THEN FindIndex(models, {m \in all : m.id = cat.default})
                ELSE 0
              chosen == OrElse(OrElse(OrElse(preferredById, preferredByName), providerDefault),
                               IF models # <<>> THEN 1 ELSE 0)
          IN IF chosen = 0 THEN NoModel
             ELSE [providerID |-> providers[at].id, modelID |-> models[chosen].id]

\* A call of getDefaultChatModel: its position, its result, the answer it got from the
\* catalog, whether it asked, and the pairs earlier calls had returned when it began
IdleResolver ==
  [st |-> "idle", ret |-> NoModel, cat |-> EmptyCatalog, queried |-> FALSE, after |-> {}]

\* No call yet, nothing memoized (let resolvedDefaultChatModel = null), the runtime's
\* catalog one of `cats`
ResolverInit(cats) ==
  /\ catalog \in cats
  /\ catalogChanges = 0
  /\ resolvedDefaultChatModel = NoModel
  /\ resolvers = [c \in 1..MaxResolvers |-> IdleResolver]

ResolverIdle == ResolverInit({EmptyCatalog})

\* getDefaultChatModel(client) up to its await: the memoized pair, or the query is sent
ResolveCall(c) ==
  /\ resolvers[c].st = "idle"
  /\ \A d \in 1..(c - 1) : resolvers[d].st # "idle"
  /\ LET returned == {resolvers[d].ret : d \in {e \in 1..MaxResolvers : resolvers[e].st = "got"}}
                      \ {NoModel}
     IN resolvers' = [resolvers EXCEPT ![c] =
          IF resolvedDefaultChatModel # NoModel
            THEN [@ EXCEPT !.st = "got", !.ret = resolvedDefaultChatModel, !.after = returned]
            ELSE [@ EXCEPT !.st = "querying", !.after = returned]]
  /\ UNCHANGED <<catalog, catalogChanges, resolvedDefaultChatModel, mcpConfigStore, req,
                 authUser, polPc, role, allowedServers, body, admin, toolsReq, supVars, turnVars, storeVars>>

\* `await client.config.providers()` settles for call c: it throws, or the rest of
\* the body runs on the catalog of that moment
CatalogAnswers(c) ==
  /\ resolvers[c].st = "querying"
  /\ \E threw \in BOOLEAN :
       IF threw
         THEN /\ resolvers' = [resolvers EXCEPT ![c].st = "threw", ![c].queried = TRUE]
              /\ UNCHANGED resolvedDefaultChatModel
         ELSE LET r == ResolveFrom(catalog)
              IN /\ resolvers' = [resolvers EXCEPT ![c].st = "got", ![c].ret = r,
                                                    ![c].cat = catalog, ![c].queried = TRUE]
                 /\ resolvedDefaultChatModel' =
                      IF r # NoModel THEN r ELSE resolvedDefaultChatModel
  /\ UNCHANGED <<catalog, catalogChanges, mcpConfigStore, req, authUser, polPc, role,
                 allowedServers, body, admin, toolsReq, supVars, turnVars, storeVars>>

\* The runtime's providers change (a provider is configured or removed)
CatalogChanges ==
  /\ catalogChanges < MaxCatalogChanges
  /\ catalog' \in LaterCatalogs \ {catalog}
  /\ catalogChanges' = catalogChanges + 1
  /\ UNCHANGED <<resolvedDefaultChatModel, resolvers, mcpConfigStore, req, authUser, polPc,
                 role, allowedServers, body, admin, toolsReq, supVars, turnVars, storeVars>>

(***************************************************************************)
(* THE PROVIDER STORE: loadMcpStore, syncMcpFromStoreIntoOpencode           *)
(***************************************************************************)
StoreNames == {"student_server_2022", "faculty_server"}

\* One [name, config] pair of Object.entries(servers); object: the config is an object
FileEntries ==
  {[name |-> "student_server_2022", object |-> TRUE, enabled |-> "unset"],
   [name |-> "faculty_server", object |-> TRUE, enabled |-> "false"],
   [name |-> "faculty_server", object |-> FALSE, enabled |-> "unset"],
   [name |-> " ", object |-> TRUE, enabled |-> "unset"]}

DistinctNames(es) == \A i, j \in 1..Len(es) : es[i].name = es[j].name => i = j

\* Object.entries of an array: the keys are the indices
ArrayEntries(cfgs) ==
  [i \in 1..Len(cfgs) |-> [name |-> ToString(i - 1), object |-> cfgs[i].object,
                           enabled |-> cfgs[i].enabled]]

Unreadable == [kind |-> "unreadable", servers |-> "absent", entries |-> <<>>, tools |-> "absent"]

Unparseable == [Unreadable EXCEPT !.kind = "unparseable"]

FileTools == {"absent", "array", "T1"}

\* What fs.readFile / JSON.parse find at MCP_STORE_PATH
Files ==
  {Unreadable, Unparseable}
  \cup [kind : {"json"}, servers : {"absent"}, entries : {<<>>}, tools : FileTools]
  \cup [kind : {"json"}, servers : {"array"},
        entries : {ArrayEntries(c) : c \in SeqsUpTo({e \in FileEntries : e.name = " "}, MaxArrayLen)},
        tools : FileTools]
  \cup [kind : {"json"}, servers : {"object"},
        entries : {es \in SeqsUpTo(FileEntries, MaxFileEntries) : DistinctNames(es)},
        tools : FileTools]

EmptyStore == [n \in {} |-> [enabled |-> "unset"]]

\* mcpConfigStore.set(name, config) on the map and on its key order
MapSet(m, n, c) ==
  [store |-> [k \in DOMAIN m.store \cup {n} |-> IF k = n THEN c ELSE m.store[k]],
   order |-> IF n \in DOMAIN m.store THEN m.order ELSE Append(m.order, n)]

\* The loop left after its first pair, the rest of the file's pairs not yet set
SetEntriesFirstOnly(es, m) ==
  IF es = <<>> THEN m
  ELSE LET e == Head(es)
       IN IF Trim(e.name) # "" /\ e.object THEN MapSet(m, e.name, [enabled |-> e.enabled]) ELSE m

RECURSIVE SetEntries(_, _)
\* for (const [name, config] of Object.entries(servers)) { if (...) mcpConfigStore.set(name, config) }
SetEntries(es, m) ==
  IF es = <<>> THEN m
  ELSE LET e == Head(es)
       IN SetEntries(Tail(es),
                     IF Trim(e.name) # "" /\ e.object
                       THEN MapSet(m, e.name, [enabled |-> e.enabled]) ELSE m)

\* loadMcpStore({ replace }) once fs.readFile has settled with file f: what it returns
\* and what it leaves in mcpConfigStore and mcpToolPolicy
loadMcpStore(f, replace, store, order, policy) ==
  IF f.kind # "json"
    THEN [ok |-> FALSE, store |-> store, order |-> order, policy |-> policy]
  ELSE LET before == [store |-> store, order |-> order]
           m == IF f.servers \in {"array", "object"}
                  THEN SetEntries(f.entries,
                                  IF replace THEN [store |-> EmptyStore, order |-> <<>>]
                                  ELSE before)
                ELSE before
       IN [ok |-> TRUE, store |-> m.store, order |-> m.order,
           policy |-> IF f.tools \notin {"absent", "array"} THEN f.tools
                      ELSE IF replace THEN "null" ELSE policy]

\* The pairs of a store file that loadMcpStore accepts, in the file's order
KeptEntries(f) ==
  LET Kept(e) == Trim(e.name) # "" /\ e.object IN SelectSeq(f.entries, Kept)

NothingRead == [got |-> FALSE, kept |-> <<>>]

\* json?.servers of the file read, if it is an object: its accepted pairs
ReadOf(f) ==
  IF f.kind = "json" /\ f.servers \in {"array", "object"}
    THEN [got |-> TRUE, kept |-> KeptEntries(f)]
  ELSE NothingRead

\* Array.from(mcpConfigStore.entries())
StoreEntries ==
  [i \in 1..Len(storeOrder) |->
     [name |-> storeOrder[i], enabled |-> mcpConfigStore[storeOrder[i]].enabled]]

NoPass == [active |-> FALSE, rest |-> <<>>, step |-> "add"]

NoReloads == [load |-> 0, acquire |-> 0, sync |-> 0]

\* watchRequests: calls of startMcpStoreWatcher; fsEvents: filesystem events delivered;
\* matching: those naming the store file; bursts: times a timer was set while none was
\* pending; fired: timer fires (each starts one reload); snapshot, calls, failures: the
\* entries of the sync pass in flight (or of the last one), the client calls it has
\* issued, and how many of them failed
NoStoreHist == [watchRequests |-> 0, fsEvents |-> 0, matching |-> 0, bursts |-> 0,
                fired |-> 0, snapshot |-> <<>>, calls |-> <<>>, failures |-> 0]

\* const enabled = config.enabled !== false
EnabledAlways(entry) == TRUE

Enabled(entry) == entry.enabled # "false"

\* The client call the pass issues next
NextCall(pass) ==
  [op |-> IF pass.step = "add" THEN "add"
          ELSE IF Enabled(Head(pass.rest)) THEN "connect" ELSE "disconnect",
   name |-> Head(pass.rest).name]

\* try { await opencodeClient.mcp.<op>(...) } catch (e) { logger.debug(...) }: the
\* pass goes on whether the call succeeded or not
ContinuesOnlyIfOk(ok) == ok

Continues(ok) == TRUE

\* The pass after one call settled: the same entry's connect/disconnect, or the next entry
AfterCall(pass, ok) ==
  IF ~Continues(ok) THEN NoPass
  ELSE IF pass.step = "add" THEN [pass EXCEPT !.step = "link"]
  ELSE IF Len(pass.rest) > 1 THEN [pass EXCEPT !.rest = Tail(pass.rest), !.step = "add"]
  ELSE NoPass

\* syncMcpFromStoreIntoOpencode(client) up to its first await: it joins the pass in
\* flight, or returns at once (no entries), or starts a pass over a snapshot
SyncCall ==
  IF mcpSyncInFlight.active THEN "join"
  ELSE IF storeOrder = <<>> THEN "none"
  ELSE "start"

StartPass ==
  /\ mcpSyncInFlight' = [active |-> TRUE, rest |-> StoreEntries, step |-> "add"]
  /\ storeHist' = [storeHist EXCEPT !.snapshot = StoreEntries, !.calls = <<>>,
                                    !.failures = 0]

StoreInit ==
  /\ storeOrder = <<>>
  /\ lastRead = NothingRead
  /\ mcpToolPolicy = "null"
  /\ mcpWatcherStarted = FALSE
  /\ watchSlots = <<>>
  /\ reloads = NoReloads
  /\ mcpSyncInFlight = NoPass
  /\ bootPc = "load"
  /\ storeHist = NoStoreHist

(***************************************************************************)
(* PROCESS SUPERVISOR                                                      *)
(***************************************************************************)
NoPromise == 0
NoChild == 0
NoUrl == 0
Pending == -1      \* an attempt's promise has not settled
NullHandle == 0    \* the promise resolved to null
Callers == 1..MaxCallers

\* const OPENCODE_PORT = OPENCODE_PORT_IS_AUTO || !OPENCODE_PORT_RAW ? null : Number(OPENCODE_PORT_RAW)
OPENCODE_PORT ==
  IF OPENCODE_PORT_RAW = "auto" \/ OPENCODE_PORT_RAW \in {"unset", ""} THEN "null"
  ELSE OPENCODE_PORT_RAW

\* every busy fixed port treated as a default that may be replaced
explicitlySetNever == FALSE

\* typeof OPENCODE_PORT_RAW === "string" && OPENCODE_PORT_RAW.length > 0
explicitlySet == OPENCODE_PORT_RAW \notin {"unset", ""}

SupInit ==
  /\ OPENCODE_PORT_RAW \in {"unset", "auto", "8010"}
  /\ opencodePromise = NoPromise
  /\ attempts = <<>>
  /\ opencodeProc = NoChild
  /\ opencodeBaseUrl = NoUrl
  /\ children = <<>>
  /\ callers = [c \in Callers |-> [st |-> "idle", att |-> 0, joined |-> "none", res |-> Pending]]

\* An attempt as getOpencode starts it.  probe, port, outcome, carried and settles
\* record what startOpencodeServer did: the result of isPortAvailable, the kind of
\* port the child was spawned on, what settled the startup wait, whether the rejection
\* message held the captured output, and how many times the wait was settled.
NewAttempt(first) ==
  [pc |-> first, result |-> Pending, probe |-> "none", port |-> "none",
   outcome |-> "none", carried |-> FALSE, settles |-> 0]

Settled(a) == attempts[a].result # Pending

\* getOpencode: `if (!opencodePromise)` is false, the caller is handed the cached promise
JoinsCachedOnlyWhenSettled == opencodePromise # NoPromise /\ Settled(opencodePromise)

JoinsCached == opencodePromise # NoPromise

\* startOpencodeServer up to its first await
FirstPc ==
  IF opencodeBaseUrl # NoUrl THEN "sync"
  ELSE IF OPENCODE_PORT = "null" THEN "port" ELSE "probe"

\* getOpencode(), called by caller c (callers are interchangeable: they call in
\* the order of their numbers)
GetOpencode(c) ==
  /\ bootPc = "up"
  /\ callers[c].st = "idle"
  /\ \A d \in 1..(c - 1) : callers[d].st # "idle"
  /\ IF JoinsCached
       THEN /\ callers' = [callers EXCEPT ![c] =
                 [st |-> "waiting", att |-> opencodePromise,
                  joined |-> attempts[opencodePromise].pc, res |-> Pending]]
            /\ UNCHANGED <<opencodePromise, attempts>>
       ELSE /\ attempts' = Append(attempts, NewAttempt(FirstPc))
            /\ opencodePromise' = Len(attempts) + 1
            /\ callers' = [callers EXCEPT ![c] =
                 [st |-> "waiting", att |-> Len(attempts) + 1, joined |-> "new", res |-> Pending]]
  /\ UNCHANGED <<OPENCODE_PORT_RAW, opencodeProc, opencodeBaseUrl, children, polVars, turnVars, storeVars>>

\* `return opencodePromise` resolves for an awaiting caller
Receive(c) ==
  /\ callers[c].st = "waiting"
  /\ Settled(callers[c].att)
  /\ callers' = [callers EXCEPT ![c].st = "got", ![c].res = attempts[callers[c].att].result]
  /\ UNCHANGED <<OPENCODE_PORT_RAW, opencodePromise, attempts, opencodeProc, opencodeBaseUrl,
                 children, polVars, turnVars, storeVars>>

\* startOpencodeServer returned null: the async body returns null, nothing is thrown
ReturnsNull(a) ==
  /\ attempts' = [attempts EXCEPT ![a].pc = "done", ![a].result = NullHandle,
                                   ![a].probe = "busy"]
  /\ UNCHANGED opencodePromise

\* the async body threw: .catch((error) => { opencodePromise = undefined; return null; })
\* (why: what threw; carried: the Error's message holds the child's output)
Rejected(a, why, carried) ==
  /\ attempts' = [attempts EXCEPT ![a].pc = "done", ![a].result = NullHandle,
                                   ![a].outcome = why, ![a].carried = carried,
                                   ![a].settles = @ + 1]
  /\ opencodePromise' = NoPromise

\* spawn(...); opencodeProc = child; then wait for the listening line
Spawns(a, port) ==
  /\ children' = Append(children, [by |-> a, st |-> "starting", output |-> ""])
  /\ opencodeProc' = Len(children) + 1
  /\ attempts' = [attempts EXCEPT ![a].pc = "wait", ![a].port = port,
                                   ![a].probe = IF port = "fixed" THEN "free" ELSE @]
  /\ UNCHANGED opencodePromise

\* await getFreePort(OPENCODE_HOSTNAME) settles: with the port the probe server was
\* bound to, or with the probe server's error
FreePortResult(a) ==
  /\ a \in 1..Len(attempts) /\ attempts[a].pc \in {"port", "fallback"}
  /\ \E r \in {"port", "error"} :
       IF r = "port" THEN Spawns(a, "os")
       ELSE Rejected(a, "port-error", FALSE) /\ UNCHANGED <<children, opencodeProc>>
  /\ UNCHANGED <<OPENCODE_PORT_RAW, opencodeBaseUrl, callers, polVars, turnVars, storeVars>>

\* await isPortAvailable(OPENCODE_HOSTNAME, port) settles for a fixed port
ProbeResult(a) ==
  /\ a \in 1..Len(attempts) /\ attempts[a].pc = "probe"
  /\ \E available \in BOOLEAN :
       IF available THEN Spawns(a, "fixed")
       ELSE IF explicitlySet THEN ReturnsNull(a) /\ UNCHANGED <<children, opencodeProc>>
       ELSE /\ attempts' = [attempts EXCEPT ![a].pc = "fallback", ![a].probe = "busy"]
            /\ UNCHANGED <<opencodePromise, children, opencodeProc>>
  /\ UNCHANGED <<OPENCODE_PORT_RAW, opencodeBaseUrl, callers, polVars, turnVars, storeVars>>

\* a promise settles once: resolve and reject act only while the wait is pending
WaitingEvenIfSettled(k) == TRUE

Waiting(k) == attempts[children[k].by].pc = "wait"

\* the child writes a chunk to stdout or stderr in which onChunk finds no line that
\* starts with "opencode server listening" and matches /on\s+(https?:\/\/[^\s]+)/
\* (other output, or the marker without a URL): output += chunk.  Only the exit handler
\* reads `output`, for a rejection that counts only while the wait is pending: once
\* the wait is settled by the listening line or the timer the model forgets it.
OutputChunk(k) ==
  /\ k \in 1..Len(children) /\ children[k].st = "starting" /\ children[k].output = ""
  /\ Waiting(k)
  /\ children' = [children EXCEPT ![k].output = "x"]
  /\ UNCHANGED <<OPENCODE_PORT_RAW, opencodePromise, attempts, opencodeProc, opencodeBaseUrl,
                 callers, polVars, turnVars, storeVars>>

\* the child prints a line "opencode server listening on http://..." (onChunk)
ListeningLine(k) ==
  /\ k \in 1..Len(children) /\ children[k].st = "starting"
  /\ children' = [children EXCEPT ![k].st = "listening", ![k].output = ""]
  /\ IF Waiting(k)
       THEN /\ opencodeBaseUrl' = children[k].by
            /\ attempts' = [attempts EXCEPT ![children[k].by].pc = "sync",
                                             ![children[k].by].outcome = "url",
                                             ![children[k].by].settles = @ + 1]
       ELSE UNCHANGED <<opencodeBaseUrl, attempts>>
  /\ UNCHANGED <<OPENCODE_PORT_RAW, opencodePromise, opencodeProc, callers, polVars, turnVars, storeVars>>

\* setTimeout(..., OPENCODE_STARTUP_TIMEOUT_MS) fires before the listening line
StartupTimeout(k) ==
  /\ k \in 1..Len(children) /\ children[k].st = "starting" /\ Waiting(k)
  /\ Rejected(children[k].by, "timeout", FALSE)
  /\ children' = [children EXCEPT ![k].output = ""]
  /\ UNCHANGED <<OPENCODE_PORT_RAW, opencodeProc, opencodeBaseUrl, callers,
                 polVars, turnVars, storeVars>>

\* child.on("exit") / child.on("error")
ChildExit(k) ==
  /\ k \in 1..Len(children) /\ children[k].st \in {"starting", "listening"}
  /\ \E how \in {"exited", "error"} :
       /\ how = "error" => children[k].st = "starting" /\ children[k].output = ""
       /\ children' = [children EXCEPT ![k].st = how]
       /\ IF Waiting(k)
            THEN Rejected(children[k].by, how, how = "exited" /\ children[k].output # "")
            ELSE UNCHANGED <<attempts, opencodePromise>>
  /\ UNCHANGED <<OPENCODE_PORT_RAW, opencodeProc, opencodeBaseUrl, callers, polVars, turnVars, storeVars>>

\* A holder of the handle calls server.close(): opencodeProc?.kill().  The child dies
\* and its exit handler runs (clearTimeout and a reject of the long-settled promise,
\* which does nothing); no variable of the supervisor is reset.
Release(c) ==
  /\ callers[c].st = "got" /\ callers[c].res > NullHandle
  /\ opencodeProc # NoChild /\ children[opencodeProc].st = "listening"
  /\ children' = [children EXCEPT ![opencodeProc].st = "killed"]
  /\ UNCHANGED <<OPENCODE_PORT_RAW, opencodePromise, attempts, opencodeProc, opencodeBaseUrl,
                 callers, polVars, turnVars, storeVars>>

\* the initial syncMcpFromStoreIntoOpencode has settled (its failures are swallowed):
\* getOpencode's body returns { client, server }
InitialSyncDone ==
  attempts' = [a \in 1..Len(attempts) |->
                 IF attempts[a].pc = "syncing"
                   THEN [attempts[a] EXCEPT !.pc = "done", !.result = a]
                 ELSE attempts[a]]

\* getOpencode's body, with the base URL, calls syncMcpFromStoreIntoOpencode(client)
InitialSync(a) ==
  /\ a \in 1..Len(attempts) /\ attempts[a].pc = "sync"
  /\ IF SyncCall = "none"
       THEN /\ attempts' = [attempts EXCEPT ![a].pc = "done", ![a].result = a]
            /\ UNCHANGED <<mcpSyncInFlight, storeHist>>
       ELSE /\ attempts' = [attempts EXCEPT ![a].pc = "syncing"]
            /\ IF SyncCall = "start" THEN StartPass
               ELSE UNCHANGED <<mcpSyncInFlight, storeHist>>
  /\ UNCHANGED <<OPENCODE_PORT_RAW, opencodePromise, opencodeProc, opencodeBaseUrl, children,
                 callers, polVars, turnVars, storeOrder, lastRead, mcpToolPolicy, mcpWatcherStarted,
                 watchSlots, reloads, bootPc>>

\* One client call of the pass in flight settles; after the last one the pass's
\* promise resolves (finally: mcpSyncInFlight = null) and everyone awaiting it resumes
SyncStep ==
  /\ mcpSyncInFlight.active
  /\ \E ok \in BOOLEAN :
       LET call == NextCall(mcpSyncInFlight)
           after == AfterCall(mcpSyncInFlight, ok)
       IN /\ storeHist' = [storeHist EXCEPT !.calls = Append(@, call),
                                         !.failures = IF ok THEN @ ELSE @ + 1]
          /\ mcpSyncInFlight' = after
          /\ IF after.active THEN UNCHANGED <<attempts, reloads>>
             ELSE InitialSyncDone /\ reloads' = [reloads EXCEPT !.sync = 0]
  /\ UNCHANGED <<OPENCODE_PORT_RAW, opencodePromise, opencodeProc, opencodeBaseUrl, children,
                 callers, polVars, turnVars, storeOrder, lastRead, mcpToolPolicy, mcpWatcherStarted,
                 watchSlots, bootPc>>

(***************************************************************************)
(* POST /api/mcp/add: register a provider, remember it, persist the store  *)
(***************************************************************************)
\* The request body: name as sent, config an object (with its enabled flag) or not
AddNames == {"", " ", "faculty_server", " student_server_2022 "}

AddConfigs == {[object |-> FALSE, enabled |-> "unset"], [object |-> TRUE, enabled |-> "unset"],
               [object |-> TRUE, enabled |-> "false"]}

\* writes: the contents written to MCP_STORE_PATH by this request; before: the map when
\* the request arrived (history)
NoAdd == [pc |-> "none", name |-> "", enabled |-> "unset", status |-> 0, content |-> <<>>,
          writes |-> <<>>, before |-> [store |-> EmptyStore, order |-> <<>>]]

\* saveMcpStore up to its await: { version: 1, servers: Object.fromEntries(...), tools? }
saveMcpStore(entries, policy) ==
  <<[servers |-> entries, tools |-> IF policy # "null" THEN policy ELSE "absent"]>>

\* The key of mcpConfigStore.set(name.trim(), config)
addedNameAsSent(name) == name

addedName(name) == Trim(name)

AddAnswer(code) == [admin EXCEPT !.pc = "done", !.status = code]

\* The handler up to `await getOpencode()`: the two 400 answers
AddRequest ==
  /\ admin.pc = "none"
  /\ \E name \in AddNames, config \in AddConfigs :
       LET a == [admin EXCEPT !.name = name, !.enabled = config.enabled,
                              !.before = [store |-> mcpConfigStore, order |-> storeOrder]]
       IN admin' = IF Trim(name) = "" \/ ~config.object
                     THEN [a EXCEPT !.pc = "done", !.status = 400]
                   ELSE [a EXCEPT !.pc = "acquire"]
  /\ UNCHANGED <<mcpConfigStore, req, authUser, polPc, role, allowedServers, body, toolsReq,
                 resolverVars, supVars, turnVars, storeVars>>

\* const { client } = await getOpencode(): a handle, or a rejection or null (500)
AddAcquired ==
  /\ admin.pc = "acquire"
  /\ \E handle \in BOOLEAN :
       admin' = IF handle THEN [admin EXCEPT !.pc = "add"] ELSE AddAnswer(500)
  /\ UNCHANGED <<mcpConfigStore, req, authUser, polPc, role, allowedServers, body, toolsReq,
                 resolverVars, supVars, turnVars, storeVars>>

\* client.mcp.add settles: it throws (500), or the map is set and saveMcpStore runs up
\* to its fs.writeFile
AddAccepted ==
  /\ admin.pc = "add"
  /\ \E threw \in BOOLEAN :
       IF threw
         THEN admin' = AddAnswer(500) /\ UNCHANGED <<mcpConfigStore, storeOrder>>
       ELSE LET m == MapSet([store |-> mcpConfigStore, order |-> storeOrder],
                             addedName(admin.name), [enabled |-> admin.enabled])
                entries == [i \in 1..Len(m.order) |->
                              [name |-> m.order[i], enabled |-> m.store[m.order[i]].enabled]]
            IN /\ mcpConfigStore' = m.store
               /\ storeOrder' = m.order
               /\ admin' = [admin EXCEPT !.pc = "save",
                                         !.content = saveMcpStore(entries, mcpToolPolicy)]
  /\ UNCHANGED <<req, authUser, polPc, role, allowedServers, body, toolsReq, resolverVars,
                 supVars, turnVars, lastRead, mcpToolPolicy, mcpWatcherStarted, watchSlots,
                 reloads, mcpSyncInFlight, bootPc, storeHist>>

\* fs.writeFile settles (a failure is logged only); res.json({ ok: true, status })
AddSaved ==
  /\ admin.pc = "save"
  /\ \E threw \in BOOLEAN :
       admin' = [AddAnswer(200) EXCEPT !.writes = IF threw THEN @ ELSE @ \o admin.content]
  /\ UNCHANGED <<mcpConfigStore, req, authUser, polPc, role, allowedServers, body, toolsReq,
                 resolverVars, supVars, turnVars, storeVars>>

(***************************************************************************)
(* THE STORE AT START-UP, ITS WATCHER AND THE RELOAD CALLBACK              *)
(***************************************************************************)
NoRequest ==
  /\ req = [authorization |-> NoBearer, xRole |-> "", xUserRole |-> "", xAllowedServers |-> <<>>]
  /\ authUser = NoUser
  /\ polPc = "recv"
  /\ role = "none"
  /\ allowedServers = <<>>
  /\ toolsReq = NoListing
  /\ body = NoBody
  /\ admin = NoAdd

\* await loadMcpStore({ replace: true }) at start-up
BootLoad ==
  /\ bootPc = "load"
  /\ \E f \in Files :
       LET r == loadMcpStore(f, TRUE, mcpConfigStore, storeOrder, mcpToolPolicy)
       IN /\ mcpConfigStore' = r.store
          /\ storeOrder' = r.order
          /\ mcpToolPolicy' = r.policy
          /\ lastRead' = ReadOf(f)
  /\ bootPc' = "watch"
  /\ UNCHANGED <<req, authUser, polPc, role, allowedServers, body, admin, toolsReq, resolverVars, supVars, turnVars,
                 mcpWatcherStarted, watchSlots, reloads, mcpSyncInFlight, storeHist>>

\* if (mcpWatcherStarted) return
WatcherNeverStarted == FALSE

WatcherStarted == mcpWatcherStarted

\* startMcpStoreWatcher(onValidChange): the call at start-up, and any later call;
\* watch() may throw, the debounce closure exists either way
startMcpStoreWatcher ==
  /\ bootPc \in {"watch", "up"}
  /\ storeHist.watchRequests < MaxWatchRequests
  /\ bootPc' = "up"
  /\ storeHist' = [storeHist EXCEPT !.watchRequests = @ + 1]
  /\ IF WatcherStarted THEN UNCHANGED <<mcpWatcherStarted, watchSlots>>
     ELSE /\ mcpWatcherStarted' = TRUE
          /\ \E threw \in BOOLEAN :
               watchSlots' = Append(watchSlots, [watching |-> ~threw, pending |-> 0])
  /\ UNCHANGED <<polVars, supVars, turnVars, storeOrder, lastRead, mcpToolPolicy, reloads,
                 mcpSyncInFlight>>

StoreFileName == "mcp-configs.json"

FsFilenames == {"mcp-configs.json", "MCP-CONFIGS.JSON", "other.json", ""}

ToLowerCase(str) == IF str = "MCP-CONFIGS.JSON" THEN "mcp-configs.json" ELSE str

\* if (!filename) return; if (String(filename).toLowerCase() !== file) return
Matches(filename) == filename # "" /\ ToLowerCase(filename) = ToLowerCase(StoreFileName)

\* debounce: if (t) clearTimeout(t); t = setTimeout(...): the timers pending afterwards
RearmWithoutClear(pending) == pending + 1

Rearm(pending) == 1

\* The watcher's listener runs for one filesystem event of the store's directory
FsEvent ==
  /\ storeHist.fsEvents < MaxFsEvents
  /\ \E k \in 1..Len(watchSlots) : watchSlots[k].watching
  /\ \E filename \in FsFilenames :
       /\ watchSlots' = [k \in 1..Len(watchSlots) |->
                           IF watchSlots[k].watching /\ Matches(filename)
                             THEN [watchSlots[k] EXCEPT !.pending = Rearm(@)]
                             ELSE watchSlots[k]]
       /\ storeHist' = [storeHist EXCEPT
            !.fsEvents = @ + 1,
            !.matching = IF Matches(filename) THEN @ + 1 ELSE @,
            !.bursts = IF Matches(filename)
                          /\ \E k \in 1..Len(watchSlots) :
                               watchSlots[k].watching /\ watchSlots[k].pending = 0
                         THEN @ + 1 ELSE @]
  /\ UNCHANGED <<polVars, supVars, turnVars, storeOrder, lastRead, mcpToolPolicy, mcpWatcherStarted,
                 reloads, mcpSyncInFlight, bootPc>>

\* A debounce timer fires: the reload callback starts and awaits fs.readFile
TimerFires(k) ==
  /\ k \in 1..Len(watchSlots) /\ watchSlots[k].pending > 0
  /\ watchSlots' = [watchSlots EXCEPT ![k].pending = @ - 1]
  /\ reloads' = [reloads EXCEPT !.load = @ + 1]
  /\ storeHist' = [storeHist EXCEPT !.fired = @ + 1]
  /\ UNCHANGED <<polVars, supVars, turnVars, storeOrder, lastRead, mcpToolPolicy, mcpWatcherStarted,
                 mcpSyncInFlight, bootPc>>

\* onValidChange once `await getOpencode()` has settled: a null handle makes the
\* destructuring throw (caught); otherwise syncMcpFromStoreIntoOpencode(client) is called.
\* `from` is the await the callback was at.
ReloadSyncs(from, store) ==
  IF attempts[Len(attempts)].result = NullHandle \/ (~mcpSyncInFlight.active /\ store = <<>>)
    THEN /\ reloads' = [reloads EXCEPT ![from] = @ - 1]
         /\ UNCHANGED <<mcpSyncInFlight, storeHist>>
  ELSE /\ reloads' = [reloads EXCEPT ![from] = @ - 1, !.sync = @ + 1]
       /\ IF mcpSyncInFlight.active THEN UNCHANGED <<mcpSyncInFlight, storeHist>>
          ELSE /\ mcpSyncInFlight' = [active |-> TRUE, rest |-> store, step |-> "add"]
               /\ storeHist' = [storeHist EXCEPT !.snapshot = store, !.calls = <<>>,
                                                 !.failures = 0]

\* The reload callback's loadMcpStore({ replace: true }) settles; if (!ok) return;
\* onValidChange: if (!opencodePromise) return; await getOpencode()
ReloadLoaded ==
  /\ reloads.load > 0
  /\ \E f \in Files :
       LET r == loadMcpStore(f, TRUE, mcpConfigStore, storeOrder, mcpToolPolicy)
           entries == [i \in 1..Len(r.order) |->
                         [name |-> r.order[i], enabled |-> r.store[r.order[i]].enabled]]
       IN /\ mcpConfigStore' = r.store
          /\ lastRead' = ReadOf(f)
          /\ storeOrder' = r.order
          /\ mcpToolPolicy' = r.policy
          /\ IF ~r.ok \/ opencodePromise = NoPromise
               THEN /\ reloads' = [reloads EXCEPT !.load = @ - 1]
                    /\ UNCHANGED <<mcpSyncInFlight, storeHist>>
             ELSE IF ~Settled(opencodePromise)
               THEN /\ reloads' = [reloads EXCEPT !.load = @ - 1, !.acquire = @ + 1]
                    /\ UNCHANGED <<mcpSyncInFlight, storeHist>>
             ELSE ReloadSyncs("load", entries)
  /\ UNCHANGED <<req, authUser, polPc, role, allowedServers, body, admin, toolsReq, resolverVars, supVars, turnVars,
                 mcpWatcherStarted, watchSlots, bootPc>>

\* `await getOpencode()` settles for the reload callbacks that awaited a pending attempt
ReloadAcquired ==
  /\ reloads.acquire > 0
  /\ Settled(Len(attempts))
  /\ ReloadSyncs("acquire", StoreEntries)
  /\ UNCHANGED <<polVars, supVars, turnVars, storeOrder, lastRead, mcpToolPolicy, mcpWatcherStarted,
                 watchSlots, bootPc>>

(***************************************************************************)
(* ONE STREAMING TURN: app.post("/api/chat/stream")                        *)
(***************************************************************************)
ThisSession == "s1"
OtherSession == "s2"
timeoutMs == 120000

\* An inbound event of the global subscription (absent fields are "")
Evt0 == [type |-> "", sessionID |-> "", partType |-> "", delta |-> "", callID |-> "",
         id |-> "", tool |-> "", messageID |-> "", status |-> "", title |-> "", error |-> ""]

TextEvt(sid, d) ==
  [Evt0 EXCEPT !.type = "message.part.updated", !.sessionID = sid, !.partType = "text",
               !.delta = d]

ToolEvt(sid, cid, tl, mid, st, ti) ==
  [Evt0 EXCEPT !.type = "message.part.updated", !.sessionID = sid, !.partType = "tool",
               !.callID = cid, !.tool = tl, !.messageID = mid, !.status = st, !.title = ti]

ErrorEvt(sid, e) == [Evt0 EXCEPT !.type = "session.error", !.sessionID = sid, !.error = e]

IdleEvt(sid) == [Evt0 EXCEPT !.type = "session.idle", !.sessionID = sid]

TextEvents == {TextEvt(ThisSession, "a"), TextEvt(ThisSession, ""), TextEvt(OtherSession, "b")}

ToolEvents ==
  {ToolEvt(ThisSession, "c1", "search", "m1", "pending", ""),
   ToolEvt(ThisSession, "c1", "search", "m1", "completed", "found"),
   ToolEvt(ThisSession, "", "lookup", "m1", "", "")}

SessionEvents ==
  {ErrorEvt(ThisSession, "boom"), ErrorEvt("", ""), IdleEvt(ThisSession), IdleEvt(OtherSession)}

\* A part of a fetched message
Part0 == [type |-> "", text |-> "", callID |-> "", id |-> "", tool |-> "", messageID |-> "",
          status |-> "", title |-> ""]

TextPart(t) == [Part0 EXCEPT !.type = "text", !.text = t]

ToolPart(cid, pid, tl, mid, st) ==
  [Part0 EXCEPT !.type = "tool", !.callID = cid, !.id = pid, !.tool = tl, !.messageID = mid,
                !.status = st]

TextParts == {TextPart("R")}

ToolParts ==
  {ToolPart("c1", "p1", "search", "m1", "completed"), ToolPart("", "", "lookup", "m1", ""),
   ToolPart("", "p2", "grep", "m1", "running")}

\* info.role of a message of the session
Roles == {"assistant", "user"}

\* What client.session.messages() settles with: it throws, or returns a list whose
\* last element is missing ("nolast") or is a message with these parts
Fetches(parts) ==
  {[kind |-> "threw", parts |-> <<>>], [kind |-> "nolast", parts |-> <<>>]}
  \cup [kind : {"last"}, parts : SeqsUpTo(parts, MaxParts)]

\* An outward NDJSON line
Out0 == [type |-> "", text |-> "", callId |-> "", tool |-> "", status |-> "", title |-> "",
         error |-> "", threadId |-> ""]

MetaOut(sid) == [Out0 EXCEPT !.type = "meta", !.threadId = sid]

DeltaOut(t) == [Out0 EXCEPT !.type = "delta", !.text = t]

ErrorOut(e) == [Out0 EXCEPT !.type = "error", !.error = e]

AssistantErrorOut(e) == [Out0 EXCEPT !.type = "assistant_error", !.error = e]

DoneOut == [Out0 EXCEPT !.type = "done"]

\* part.callID || part.id || `${part.tool}-${part.messageID || ""}`
ToolCallId(part) ==
  IF part.callID # "" THEN part.callID
  ELSE IF part.id # "" THEN part.id
  ELSE part.tool \o "-" \o part.messageID

\* { type: "tool", callId, tool: part.tool, status: part.state?.status || "unknown", title }
ToolOut(part) ==
  [Out0 EXCEPT !.type = "tool", !.callId = ToolCallId(part), !.tool = part.tool,
               !.status = IF part.status = "" THEN "unknown" ELSE part.status,
               !.title = part.title]

RECURSIVE extractText(_)
extractText(parts) ==
  IF parts = <<>> THEN ""
  ELSE (IF Head(parts).type = "text" THEN Head(parts).text ELSE "") \o extractText(Tail(parts))

NoInput == [threadId |-> "", hasModel |-> FALSE]

\* loopOut: Len(out) when the try block was left (-1 before); abortedAtCheck: the signal
\* at that moment; fallback: how the fallback's fetch settled ("none" before, or if it was
\* not issued); fbText: the text of the last message it returned; passIds: the call ids
\* of the tool parts the completeness pass's fetch returned; abortAt: the handler's
\* position when the signal was aborted ("" while it is not); fbRole: info.role of the
\* last message the fallback's fetch returned; brokeOn: the session id of the event at
\* which the loop ran `break` ("none" while it has not)
NoHist == [loopOut |-> -1, abortedAtCheck |-> FALSE, fallback |-> "none", fbText |-> "",
           passIds |-> {}, abortAt |-> "", fbRole |-> "", brokeOn |-> "none",
           created |-> "none"]

TurnInit ==
  /\ pc = "idle"
  /\ input = NoInput
  /\ out = <<>>
  /\ closed = FALSE
  /\ sessionId = ""
  /\ signalAborted = FALSE
  /\ abortCause = "none"
  /\ timerArmed = FALSE
  /\ sawDelta = FALSE
  /\ aborted = FALSE
  /\ sessionError = ""
  /\ promptError = ""
  /\ seenToolCalls = {}
  /\ promptState = "none"
  /\ inbound = <<>>
  /\ hist = NoHist

\* The outer catch: res.status(500); write error; write done; res.end()
Fatal(msg) ==
  /\ out' = out \o <<ErrorOut(msg), DoneOut>>
  /\ closed' = TRUE
  /\ pc' = "closed"

\* if (typeof message !== "string" || !message.trim()) { 400; write error; res.end(); return }
RejectMessage ==
  /\ out' = Append(out, ErrorOut("Missing 'message'"))
  /\ closed' = TRUE
  /\ pc' = "closed"

\* The request arrives; the handler runs up to `await getOpencode()`
Request ==
  /\ pc = "idle"
  /\ \E message \in {"", " ", "hi"}, threadId \in {"", ThisSession}, hasModel \in BOOLEAN :
       IF Trim(message) = ""
         THEN RejectMessage /\ UNCHANGED input
         ELSE /\ input' = [threadId |-> threadId, hasModel |-> hasModel]
              /\ pc' = "acquire"
              /\ UNCHANGED <<out, closed>>
  /\ UNCHANGED <<sessionId, signalAborted, abortCause, timerArmed, sawDelta, aborted,
                 sessionError, promptError, seenToolCalls, promptState, inbound, hist,
                 polVars, supVars, storeVars>>

\* `const { client } = await getOpencode()`: a handle, or null (destructuring throws)
Acquired ==
  /\ pc = "acquire"
  /\ \E handle \in BOOLEAN :
       IF ~handle THEN Fatal("Cannot destructure property 'client'") /\ UNCHANGED sessionId
       ELSE /\ sessionId' = input.threadId
            /\ pc' = IF input.threadId = "" THEN "create" ELSE "model"
            /\ UNCHANGED <<out, closed>>
  /\ UNCHANGED <<input, signalAborted, abortCause, timerArmed, sawDelta, aborted,
                 sessionError, promptError, seenToolCalls, promptState, inbound, hist,
                 polVars, supVars, storeVars>>

\* client.session.create settles: it throws, or returns an object with or without an id
SessionCreated ==
  /\ pc = "create"
  /\ \E r \in {"threw", "no-id", "id"} :
       /\ hist' = [hist EXCEPT !.created = r]
       /\ IF r = "threw" THEN Fatal("session.create failed") /\ UNCHANGED sessionId
          ELSE /\ sessionId' = IF r = "id" THEN ThisSession ELSE ""
               /\ pc' = "model"
               /\ UNCHANGED <<out, closed>>
  /\ UNCHANGED <<input, signalAborted, abortCause, timerArmed, sawDelta, aborted,
                 sessionError, promptError, seenToolCalls, promptState, inbound,
                 polVars, supVars, storeVars>>

\* writeNdjson(res, { type: "meta", threadId: sessionId })
WriteMetaSkipped(o) == o

WriteMeta(o) == Append(o, MetaOut(sessionId))

\* The model is taken from the body or from getDefaultChatModel (which may throw);
\* then meta is written, the abort controller and the timer are set up, and
\* client.event.subscribe is awaited
MetaWritten ==
  /\ pc = "model"
  /\ \E threw \in BOOLEAN :
       /\ threw => ~input.hasModel
       /\ IF threw
            THEN Fatal("providers failed") /\ UNCHANGED timerArmed
            ELSE /\ out' = WriteMeta(out)
                 /\ timerArmed' = TRUE
                 /\ pc' = "subscribe"
                 /\ UNCHANGED closed
  /\ input' = NoInput
  /\ UNCHANGED <<sessionId, signalAborted, abortCause, sawDelta, aborted,
                 sessionError, promptError, seenToolCalls, promptState, inbound, hist,
                 polVars, supVars, storeVars>>

InboundEvents == TextEvents \cup ToolEvents \cup SessionEvents

\* part && part.sessionID === sessionId && part.type === "text" && typeof delta === "string" && delta
IsLiveDelta(e) ==
  /\ e.type = "message.part.updated"
  /\ e.sessionID = sessionId
  /\ e.partType = "text"
  /\ e.delta # ""

\* part && part.sessionID === sessionId && part.type === "tool"
IsLiveToolSkippingSeen(e) ==
  /\ e.type = "message.part.updated"
  /\ e.sessionID = sessionId
  /\ e.partType = "tool"
  /\ ToolCallId(e) \notin seenToolCalls

IsLiveTool(e) ==
  /\ e.type = "message.part.updated"
  /\ e.sessionID = sessionId
  /\ e.partType = "tool"

\* evt.type === "session.error" && (!sid || sid === sessionId)
IsSessionError(e) ==
  /\ e.type = "session.error"
  /\ (e.sessionID = "" \/ e.sessionID = sessionId)

\* evt.type === "session.idle" && evt.properties?.sessionID === sessionId
IsIdleOrSessionError(e) ==
  \/ e.type = "session.idle" /\ e.sessionID = sessionId
  \/ e.type = "session.error" /\ e.sessionID = sessionId

IsIdle(e) ==
  /\ e.type = "session.idle"
  /\ e.sessionID = sessionId

\* The event names this turn's session, or no session
Addressed(e) == e.sessionID = sessionId \/ e.sessionID = ""

\* The terminal writes: assistant_error or the time-out error, then done, then res.end()
Finish(o, sd, ab) ==
  /\ out' = (IF sessionError # "" THEN Append(o, AssistantErrorOut(sessionError))
             ELSE IF ~sd /\ ab THEN Append(o, ErrorOut("Timed out after " \o ToString(timeoutMs \div 1000) \o "s"))
             ELSE o) \o <<DoneOut>>
  /\ closed' = TRUE
  /\ pc' = "closed"

\* if (!sawDelta && !abort.signal.aborted)
FallbackWantedIgnoringDelta == ~signalAborted

FallbackWanted == ~sawDelta /\ ~signalAborted

\* From the end of the try block (thrown: through its catch) to the next await:
\* catch, finally, the promptError write, and the guards of the two fetches
PostLoop(thrown) ==
  LET o1 == IF thrown /\ ~signalAborted THEN Append(out, ErrorOut("stream failed")) ELSE out
      o2 == IF promptError # "" /\ sessionError = "" /\ ~signalAborted
              THEN Append(o1, AssistantErrorOut(promptError)) ELSE o1
      ab == IF thrown THEN signalAborted ELSE aborted
  IN /\ aborted' = ab
     /\ timerArmed' = FALSE
     /\ hist' = [hist EXCEPT !.loopOut = Len(out), !.abortedAtCheck = signalAborted]
     /\ IF FallbackWanted
          THEN out' = o2 /\ pc' = "fetch1" /\ UNCHANGED closed
        ELSE IF ~signalAborted
          THEN out' = o2 /\ pc' = "fetch2" /\ UNCHANGED closed
        ELSE Finish(o2, sawDelta, ab)

\* promptAsync(...).catch(...) is not awaited before `for await`: its promise is
\* awaited after the loop
LoopEntryAfterPrompt == "awaitPrompt"

LoopEntry == "loop"

\* `await client.event.subscribe({ signal })` settles; on success promptAsync is started
Subscribed ==
  /\ pc = "subscribe"
  /\ \E threw \in BOOLEAN :
       IF threw
         THEN PostLoop(TRUE) /\ UNCHANGED promptState
         ELSE /\ promptState' = "pending"
              /\ pc' = LoopEntry
              /\ UNCHANGED <<out, closed, aborted, timerArmed, hist>>
  /\ UNCHANGED <<input, sessionId, signalAborted, abortCause, sawDelta, sessionError,
                 promptError, seenToolCalls, inbound, polVars, supVars, storeVars>>

\* writeNdjson(res, obj) for each of `lines`, in order
EmitAhead(o, lines) == lines \o o

Emit(o, lines) == o \o lines

\* One iteration of `for await (const evt of subscription.stream)`
StreamEvent ==
  /\ pc = "loop"
  /\ ~signalAborted
  /\ \E e \in InboundEvents :
       /\ Len(inbound) < MaxEvents \/ IsIdle(e)
       /\ inbound' = IF Addressed(e) THEN Append(inbound, e) ELSE inbound
       /\ sawDelta' = (sawDelta \/ IsLiveDelta(e))
       /\ out' = Emit(out, (IF IsLiveDelta(e) THEN <<DeltaOut(e.delta)>> ELSE <<>>)
                            \o (IF IsLiveTool(e) THEN <<ToolOut(e)>> ELSE <<>>))
       /\ seenToolCalls' = IF IsLiveTool(e) THEN seenToolCalls \cup {ToolCallId(e)}
                           ELSE seenToolCalls
       /\ sessionError' = IF IsSessionError(e)
                            THEN (IF e.error # "" THEN e.error ELSE "session.error")
                            ELSE sessionError
       /\ pc' = IF IsIdle(e) THEN "awaitPrompt" ELSE "loop"
       /\ hist' = IF IsIdle(e) THEN [hist EXCEPT !.brokeOn = e.sessionID] ELSE hist
  /\ UNCHANGED <<input, closed, sessionId, signalAborted, abortCause, timerArmed, aborted,
                 promptError, promptState, polVars, supVars, storeVars>>

\* The stream's iterator finishes without a session.idle (the connection ended, or the
\* abort stopped it without an exception)
StreamEnds ==
  /\ pc = "loop"
  /\ pc' = "awaitPrompt"
  /\ UNCHANGED <<input, hist, out, closed, sessionId, signalAborted, abortCause, timerArmed,
                 sawDelta, aborted, sessionError, promptError, seenToolCalls, promptState,
                 inbound, polVars, supVars, storeVars>>

\* The stream's iterator throws (an AbortError after the signal fired, or another error)
StreamThrows ==
  /\ pc = "loop"
  /\ PostLoop(TRUE)
  /\ UNCHANGED <<input, sessionId, signalAborted, abortCause, sawDelta, sessionError,
                 promptError, seenToolCalls, promptState, inbound, polVars, supVars, storeVars>>

\* client.session.promptAsync settles; a rejection runs .catch((e) => { promptError = e })
PromptSettles ==
  /\ promptState = "pending"
  /\ ~closed
  /\ \E ok \in BOOLEAN :
       /\ promptState' = IF ok THEN "resolved" ELSE "rejected"
       /\ promptError' = IF ok THEN promptError ELSE "prompt rejected"
  /\ UNCHANGED <<pc, input, out, closed, sessionId, signalAborted, abortCause, timerArmed,
                 sawDelta, aborted, sessionError, seenToolCalls, inbound, hist,
                 polVars, supVars, storeVars>>

\* `await promptPromise` resumes after the loop
PromptAwaited ==
  /\ pc = "awaitPrompt"
  /\ promptState \in {"resolved", "rejected"}
  /\ PostLoop(FALSE)
  /\ UNCHANGED <<input, sessionId, signalAborted, abortCause, sawDelta, sessionError,
                 promptError, seenToolCalls, promptState, inbound, polVars, supVars, storeVars>>

\* req.on("close", () => abort.abort())
ClientClose ==
  /\ pc \in {"subscribe", "loop", "awaitPrompt", "fetch1", "fetch2"}
  /\ abortCause # "close"
  /\ signalAborted' = TRUE
  /\ abortCause' = IF signalAborted THEN abortCause ELSE "close"
  /\ hist' = [hist EXCEPT !.abortAt = IF signalAborted THEN @ ELSE pc]
  /\ UNCHANGED <<pc, input, out, closed, sessionId, timerArmed, sawDelta, aborted,
                 sessionError, promptError, seenToolCalls, promptState, inbound,
                 polVars, supVars, storeVars>>

\* setTimeout(() => abort.abort(), timeoutMs) fires
Deadline ==
  /\ timerArmed
  /\ timerArmed' = FALSE
  /\ signalAborted' = TRUE
  /\ abortCause' = IF signalAborted THEN abortCause ELSE "deadline"
  /\ hist' = [hist EXCEPT !.abortAt = IF signalAborted THEN @ ELSE pc]
  /\ UNCHANGED <<pc, input, out, closed, sessionId, sawDelta, aborted,
                 sessionError, promptError, seenToolCalls, promptState, inbound,
                 polVars, supVars, storeVars>>

\* The fallback's client.session.messages settles; then the guard of the second fetch
FallbackFetched ==
  /\ pc = "fetch1"
  /\ \E f \in Fetches(TextParts \cup {ToolPart("c1", "p1", "search", "m1", "completed")}),
        lastRole \in Roles :
       LET replyText == IF f.kind = "last" THEN extractText(f.parts) ELSE ""
           o == IF replyText # "" THEN Append(out, DeltaOut(replyText)) ELSE out
           sd == sawDelta \/ replyText # ""
       IN /\ sawDelta' = sd
          /\ hist' = [hist EXCEPT !.fallback = IF f.kind = "threw" THEN "threw" ELSE "fetched",
                                   !.fbText = replyText,
                                   !.fbRole = IF f.kind = "last" THEN lastRole ELSE ""]
          /\ IF ~signalAborted
               THEN out' = o /\ pc' = "fetch2" /\ UNCHANGED closed
               ELSE Finish(o, sd, aborted)
  /\ UNCHANGED <<input, sessionId, signalAborted, abortCause, timerArmed, aborted,
                 sessionError, promptError, seenToolCalls, promptState, inbound,
                 polVars, supVars, storeVars>>

RECURSIVE ToolIdsOf(_)
ToolIdsOf(parts) ==
  IF parts = <<>> THEN <<>>
  ELSE (IF Head(parts).type = "tool" THEN <<ToolCallId(Head(parts))>> ELSE <<>>)
       \o ToolIdsOf(Tail(parts))

\* if (seenToolCalls.has(callId)) continue
PassEmitsEvery(seen, part) == part.type = "tool"

PassEmits(seen, part) == part.type = "tool" /\ ToolCallId(part) \notin seen

RECURSIVE PassTools(_, _)
\* The completeness pass over the last message's parts: the tool lines it writes
PassTools(parts, seen) ==
  IF parts = <<>> THEN <<>>
  ELSE IF PassEmits(seen, Head(parts))
    THEN <<ToolOut(Head(parts))>> \o PassTools(Tail(parts), seen \cup {ToolCallId(Head(parts))})
    ELSE PassTools(Tail(parts), seen)

\* The completeness pass's client.session.messages settles; then the terminal writes
PassFetched ==
  /\ pc = "fetch2"
  /\ \E f \in Fetches(TextParts \cup ToolParts) :
       LET tools == IF f.kind = "last" THEN PassTools(f.parts, seenToolCalls) ELSE <<>>
       IN /\ seenToolCalls' = seenToolCalls \cup {tools[i].callId : i \in 1..Len(tools)}
          /\ hist' = [hist EXCEPT !.passIds = Range(ToolIdsOf(f.parts))]
          /\ Finish(out \o tools, sawDelta, aborted)
  /\ UNCHANGED <<input, sessionId, signalAborted, abortCause, timerArmed, sawDelta, aborted,
                 sessionError, promptError, promptState, inbound, polVars, supVars, storeVars>>

(***************************************************************************)
(* SPECIFICATIONS                                                          *)
(***************************************************************************)
PolIdle ==
  /\ mcpConfigStore = [n \in ServerNames |-> [enabled |-> "unset"]]
  /\ NoRequest
  /\ ResolverIdle

\* The store's variables once start-up is over, nothing watched, for the key order `order`
StoreUpWith(order, policies) ==
  /\ storeOrder = order
  /\ lastRead = NothingRead
  /\ mcpToolPolicy \in policies
  /\ mcpWatcherStarted = FALSE
  /\ watchSlots = <<>>
  /\ reloads = NoReloads
  /\ mcpSyncInFlight = NoPass
  /\ bootPc = "up"
  /\ storeHist = NoStoreHist

StoreUp(order) == StoreUpWith(order, {"null"})

\* What mcpToolPolicy can hold once a store file was loaded: null, or its tools object
ToolPolicies == {"null"} \cup (FileTools \ {"absent", "array"})

StoreIdle == StoreUp(roleDefaultMcpServers("ADMIN"))

SupIdle == SupInit /\ OPENCODE_PORT_RAW = "unset"

PolNext == AuthMiddleware \/ ScopeRequest \/ BuildBody

SupNext ==
  \/ \E c \in Callers : GetOpencode(c) \/ Receive(c) \/ Release(c)
  \/ \E a \in 1..MaxCallers : FreePortResult(a) \/ ProbeResult(a) \/ InitialSync(a)
  \/ \E k \in 1..MaxCallers : OutputChunk(k) \/ ListeningLine(k) \/ StartupTimeout(k)
                                \/ ChildExit(k)

TurnNext ==
  \/ Request \/ Acquired \/ SessionCreated \/ MetaWritten \/ Subscribed
  \/ StreamEvent \/ StreamEnds \/ StreamThrows \/ PromptSettles \/ PromptAwaited
  \/ ClientClose \/ Deadline \/ FallbackFetched \/ PassFetched

\* The access policy applied to every request of the bounded set
InitPolicy ==
  /\ PolInit /\ toolsReq = NoListing /\ body = NoBody /\ admin = NoAdd /\ ResolverIdle
  /\ SupIdle /\ TurnInit /\ StoreUpWith(roleDefaultMcpServers("ADMIN"), ToolPolicies)

SpecPolicy == InitPolicy /\ [][PolNext]_vars

\* The supervisor under every interleaving of callers and child events, with the store
\* a start-up without a store file leaves (no entries: the initial sync has no calls)
InitSupervisor ==
  /\ mcpConfigStore = EmptyStore /\ NoRequest /\ ResolverIdle
  /\ SupInit /\ TurnInit /\ StoreUp(<<>>)

SpecSupervisor == InitSupervisor /\ [][SupNext]_vars

\* One streaming turn against every behaviour of the backing process
Init == PolIdle /\ SupIdle /\ TurnInit /\ StoreIdle

Spec == Init /\ [][TurnNext]_vars

\* What the handler's own scheduling guarantees of a turn: a continuation whose awaited
\* promise has settled runs, and the subscription, which was given abort.signal, settles
\* or stops once the signal has fired.  promptAsync and session.messages are called
\* without the signal: nothing makes the backing process answer them.
TurnFairness ==
  /\ WF_vars(PromptAwaited)
  /\ WF_vars(signalAborted /\ Subscribed)
  /\ WF_vars(signalAborted /\ (StreamEnds \/ StreamThrows))

SpecTurnLive == Init /\ [][TurnNext]_vars /\ TurnFairness

\* A request of GET /api/mcp/tools: unauthenticated, or with this verified credential
StudentToken ==
  [kind |-> "payload", sub |-> "7", email |-> "a@kongu.edu", role |-> "Student",
   allowedIsArray |-> TRUE, allowedServers |-> <<" student_server_2022 ">>]

ToolRequests ==
  {r \in Requests : r.xUserRole = "" /\ r.authorization \in {NoBearer, StudentToken}}

ToolsNext ==
  \/ AuthMiddleware \/ ScopeRequest
  \/ ToolsRequest \/ ToolsAcquired \/ ToolsConfigs \/ ToolsListed

InitTools ==
  /\ mcpConfigStore \in Stores /\ req \in ToolRequests
  /\ authUser = NoUser /\ polPc = "recv" /\ role = "none" /\ allowedServers = <<>>
  /\ toolsReq = NoListing /\ body = NoBody /\ admin = NoAdd /\ ResolverIdle
  /\ SupIdle /\ TurnInit /\ StoreIdle

SpecTools == InitTools /\ [][ToolsNext]_vars

\* The calls of getDefaultChatModel, overlapping, against a catalog that may change
ResolverNext ==
  \/ \E c \in 1..MaxResolvers : ResolveCall(c) \/ CatalogAnswers(c)
  \/ CatalogChanges

InitResolver ==
  /\ mcpConfigStore = [n \in ServerNames |-> [enabled |-> "unset"]]
  /\ NoRequest /\ ResolverInit(Catalogs)
  /\ SupIdle /\ TurnInit /\ StoreIdle

SpecResolver == InitResolver /\ [][ResolverNext]_vars

\* The store from start-up on: loads, the watcher and its timer, reload callbacks, and
\* the sync passes of the first acquisition and of the reloads
StoreNext ==
  \/ BootLoad \/ startMcpStoreWatcher \/ FsEvent \/ ReloadLoaded \/ ReloadAcquired \/ SyncStep
  \/ \E k \in 1..MaxWatchRequests : TimerFires(k)
  \/ GetOpencode(1)
  \/ FreePortResult(1) \/ ListeningLine(1) \/ InitialSync(1)

InitStore ==
  /\ mcpConfigStore = EmptyStore /\ NoRequest /\ ResolverIdle
  /\ SupIdle /\ TurnInit /\ StoreInit

SpecStore == InitStore /\ [][StoreNext]_vars

\* One admin add against every store a start-up load can leave
AdminNext == AddRequest \/ AddAcquired \/ AddAccepted \/ AddSaved

InitAdmin ==
  /\ \E f \in Files :
       LET r == loadMcpStore(f, TRUE, EmptyStore, <<>>, "null")
       IN mcpConfigStore = r.store /\ StoreUpWith(r.order, {r.policy})
  /\ NoRequest /\ ResolverIdle
  /\ SupIdle /\ TurnInit

SpecAdmin == InitAdmin /\ [][AdminNext]_vars

(***************************************************************************)
(* CLAIMS                                                                  *)
(***************************************************************************)
\* The outward lines of one type, in order
OfType(o, t) == LET Is(x) == x.type = t IN SelectSeq(o, Is)

ErrorLines(o) == LET Is(x) == x.type \in {"assistant_error", "error"} IN SelectSeq(o, Is)

\* What was written while the loop ran, and what was written after it
LiveOut == SubSeq(out, 1, IF hist.loopOut >= 0 THEN hist.loopOut ELSE Len(out))

PostOut == IF hist.loopOut >= 0 THEN SubSeq(out, hist.loopOut + 1, Len(out)) ELSE <<>>

\* C1: whatever the outcome of a chat-stream request, when its output is closed the
\* outward sequence holds exactly one `done`, and that `done` is its last line.
C1_ExactlyOneDoneLast ==
  closed => /\ Len(OfType(out, "done")) = 1
            /\ out[Len(out)].type = "done"

\* C2: a turn's outward sequence never holds more than one line of type
\* `assistant_error` or `error`.
C2_AtMostOneErrorLine == Len(ErrorLines(out)) <= 1

\* C3: while an acquisition is pending or has yielded a handle no other attempt is
\* started (a new attempt only follows failed ones), an attempt spawns at most one
\* child and exactly one once it yields a handle, and every caller is handed the
\* result of the attempt it joined, so all callers of one attempt hold the same handle.
C3_OneSpawnSharedHandle ==
  /\ \A a \in 1..Len(attempts) : \A b \in 1..(a - 1) : attempts[b].result = NullHandle
  /\ \A a \in 1..Len(attempts) :
       LET spawned == {k \in 1..Len(children) : children[k].by = a}
       IN /\ Cardinality(spawned) <= 1
          /\ attempts[a].result > NullHandle => Cardinality(spawned) = 1
  /\ \A c \in Callers :
       /\ callers[c].st # "idle" => callers[c].att \in 1..Len(attempts)
       /\ callers[c].st = "got" => callers[c].res = attempts[callers[c].att].result
  /\ (\A a \in 1..Len(attempts) : attempts[a].result # NullHandle) => Len(children) <= 1

\* Two callers, one that started the attempt and one that arrived while the child had
\* not yet printed its listening line, hold the same handle and one child was spawned.
C3_Witness ==
  \E c1, c2 \in Callers :
    /\ callers[c1].st = "got" /\ callers[c2].st = "got"
    /\ callers[c1].joined = "new" /\ callers[c2].joined = "wait"
    /\ callers[c1].res > NullHandle /\ callers[c2].res = callers[c1].res
    /\ Len(children) = 1

\* C4: the effective provider list lies within the role defaults intersected with the
\* enabled providers, and within the authenticated allow-list whenever the request has
\* one (the empty list included).
C4_EffectiveWithinAllowList ==
  polPc = "scoped" =>
    /\ Range(allowedServers) \subseteq
         (Range(roleDefaultMcpServers(role)) \cap listEnabledMcpServers(mcpConfigStore))
    /\ tokenAllowedOf(authUser).some =>
         Range(allowedServers) \subseteq Range(tokenAllowedOf(authUser).list)

\* C5: with a verified credential, the effective provider list is the same whatever
\* the X-Allowed-Servers header holds.
C5_HeaderIgnoredWithCredential ==
  (polPc = "scoped" /\ authUser.ok) =>
    \A h \in SeqsUpTo(RawHeaderSegments, MaxHeaderList) :
      allowedMcpServersForRole(role, authUser, [req EXCEPT !.xAllowedServers = h],
                               mcpConfigStore) = allowedServers

\* C6: with a verified credential, the derived role is the credential's role (STUDENT
\* when that role is unrecognized or missing), whatever x-role / x-user-role hold.
C6_RoleFromCredentialAlone ==
  (polPc = "scoped" /\ authUser.ok) =>
    /\ role = (IF authUser.role \in {"ADMIN", "FACULTY", "STUDENT"} THEN authUser.role
               ELSE "STUDENT")
    /\ \A xr \in RawHeaderRoles, xur \in {"", "admin"} :
         deriveRole(authUser, [req EXCEPT !.xRole = xr, !.xUserRole = xur]) = role

\* C7: an attempt that failed is no longer the cached acquisition, so no caller joins
\* an attempt that has already failed.
C7_FailureClearsCache ==
  /\ \A a \in 1..Len(attempts) : attempts[a].result = NullHandle => opencodePromise # a
  /\ \A c \in Callers : callers[c].st # "idle" => callers[c].joined # "done"
                                                   \/ attempts[callers[c].att].result # NullHandle

\* C8: when the turn ends, if the loop wrote no delta, the signal had not fired when
\* the fallback was reached and the fetched last message has non-empty text, the
\* outward sequence holds exactly one delta, carrying that text; if the loop wrote a
\* delta or the signal had fired, nothing after the loop is a delta.
C8_FallbackDelta ==
  (closed /\ hist.loopOut >= 0) =>
    /\ (OfType(LiveOut, "delta") = <<>> /\ ~hist.abortedAtCheck
        /\ hist.fallback = "fetched" /\ hist.fbText # "")
         => OfType(out, "delta") = <<DeltaOut(hist.fbText)>>
    /\ (OfType(LiveOut, "delta") # <<>> \/ hist.abortedAtCheck)
         => OfType(PostOut, "delta") = <<>>

\* A turn without live deltas whose last message has two text parts: one delta, "RR".
C8_Witness ==
  /\ closed /\ hist.loopOut >= 0 /\ ~hist.abortedAtCheck
  /\ OfType(LiveOut, "delta") = <<>>
  /\ hist.fbText = "RR"
  /\ OfType(out, "delta") = <<DeltaOut("RR")>>

\* C9: a tool line written after the loop (by the completeness pass) carries a call id
\* that no tool line of the loop carried, and no two of them carry the same call id.
C9_NoDuplicateAcrossPaths ==
  LET live == OfType(LiveOut, "tool")
      post == OfType(PostOut, "tool")
  IN /\ \A i \in 1..Len(post) : \A j \in 1..Len(live) : post[i].callId # live[j].callId
     /\ \A i, j \in 1..Len(post) : post[i].callId = post[j].callId => i = j

\* The pass's fetch returned the call id the loop had written and a new one: only the
\* new one is written after the loop.
C9_Witness ==
  /\ closed
  /\ \E j \in 1..Len(LiveOut) : LiveOut[j].type = "tool" /\ LiveOut[j].callId = "c1"
  /\ {"c1", "p2"} \subseteq hist.passIds
  /\ LET post == OfType(PostOut, "tool") IN Len(post) = 1 /\ post[1].callId = "p2"

\* C10: the tool lines written by the loop are, in order, one per tool-part update
\* received for this session, each with that update's call id, tool, status and title;
\* so a call id with live updates has as many tool lines in the whole outward sequence
\* as updates received for it.
C10_OneToolLinePerUpdate ==
  LET IsTool(e) == e.type = "message.part.updated" /\ e.partType = "tool"
                   /\ e.sessionID = sessionId
      updates == SelectSeq(inbound, IsTool)
      live == OfType(LiveOut, "tool")
      all == OfType(out, "tool")
  IN /\ Len(live) = Len(updates)
     /\ \A i \in 1..Len(updates) :
          /\ live[i].callId = ToolCallId(updates[i])
          /\ live[i].tool = updates[i].tool
          /\ live[i].status = (IF updates[i].status = "" THEN "unknown" ELSE updates[i].status)
          /\ live[i].title = updates[i].title
     /\ \A i \in 1..Len(updates) :
          Cardinality({k \in 1..Len(all) : all[k].callId = ToolCallId(updates[i])})
            = Cardinality({k \in 1..Len(updates) :
                             ToolCallId(updates[k]) = ToolCallId(updates[i])})

\* Updates `pending` then `completed` for call id c1: exactly two tool lines for c1 in
\* the finished turn, the second with status `completed`.
C10_Witness ==
  LET all == OfType(out, "tool")
  IN /\ closed
     /\ Len(inbound) >= 2
     /\ inbound[1].status = "pending" /\ inbound[2].status = "completed"
     /\ ToolCallId(inbound[1]) = "c1" /\ ToolCallId(inbound[2]) = "c1"
     /\ Len(all) = 2
     /\ all[1].status = "pending" /\ all[2].status = "completed" /\ all[2].title = "found"

\* C12: in a finished turn whose signal was first aborted by the client's disconnect
\* while the loop was running, with nothing but meta written and no session error
\* captured by then, the outward sequence is exactly meta, done.
C12_DisconnectMetaDone ==
  (closed /\ abortCause = "close" /\ hist.abortAt = "loop"
   /\ LiveOut = <<MetaOut(sessionId)>> /\ sessionError = "")
    => out = <<MetaOut(sessionId), DoneOut>>

\* C13: in a finished turn whose signal was first aborted by the deadline while the
\* loop was running, and which captured no session error, the line
\* error "Timed out after 120s" is written, right before done, exactly when no delta
\* is in the outward sequence; with a delta there is no error line.
C13_TimeoutErrorIffNoDelta ==
  LET timedOut == ErrorOut("Timed out after 120s")
      n == Len(out)
  IN (closed /\ abortCause = "deadline" /\ hist.abortAt = "loop" /\ sessionError = "")
       => IF OfType(out, "delta") = <<>>
            THEN n >= 2 /\ out[n - 1] = timedOut /\ out[n] = DoneOut
            ELSE OfType(out, "error") = <<>> /\ out[n] = DoneOut

\* C14: the outward sequence holds at most one meta, and every delta and every tool
\* line in it comes after a meta.
C14_MetaBeforeDeltaAndTool ==
  /\ Len(OfType(out, "meta")) <= 1
  /\ \A i \in 1..Len(out) :
       out[i].type \in {"delta", "tool"} => \E j \in 1..(i - 1) : out[j].type = "meta"

\* A finished turn with a live delta and a live tool line, both after the single meta.
C14_Witness ==
  /\ closed
  /\ Len(out) >= 4
  /\ out[1].type = "meta"
  /\ OfType(out, "delta") # <<>>
  /\ OfType(out, "tool") # <<>>

\* The payload the code holds after the session errors of `evts`, "" if there is none
CapturedError(evts) ==
  LET errs == SelectSeq(evts, LAMBDA e : e.type = "session.error")
  IN IF errs = <<>> THEN ""
     ELSE IF errs[Len(errs)].error # "" THEN errs[Len(errs)].error ELSE "session.error"

C16_PromptRejectionSurfaced ==
  (closed /\ promptState = "rejected" /\ abortCause # "close")
    => \E i \in 1..(Len(out) - 1) : out[i].type \in {"assistant_error", "error"}

\* A file that is not a well-formed store: unreadable, not JSON, or JSON whose `servers`
\* is not a map from non-blank names to config objects, or whose `tools` is an array
Malformed(f) ==
  \/ f.kind # "json"
  \/ f.servers = "array"
  \/ \E i \in 1..Len(f.entries) : ~f.entries[i].object \/ Trim(f.entries[i].name) = ""
  \/ f.tools = "array"

\* C11: whatever the store holds, a load (with or without replace) of an unreadable or
\* malformed file returns false and leaves the provider map, its key order and the
\* tool-exposure policy as they were, so listEnabled() is unchanged.
C11_MalformedLoadChangesNothing ==
  \A f \in Files : \A replace \in BOOLEAN :
    Malformed(f) =>
      LET r == loadMcpStore(f, replace, mcpConfigStore, storeOrder, mcpToolPolicy)
      IN /\ ~r.ok
         /\ r.store = mcpConfigStore /\ r.order = storeOrder /\ r.policy = mcpToolPolicy
         /\ listEnabledMcpServers(r.store) = listEnabledMcpServers(mcpConfigStore)

RECURSIVE ExpectedCalls(_)
\* The calls a pass owes to a snapshot: per entry add, then disconnect for an entry
\* whose enabled flag is false and connect for any other
ExpectedCalls(entries) ==
  IF entries = <<>> THEN <<>>
  ELSE <<[op |-> "add", name |-> Head(entries).name],
         [op |-> IF Head(entries).enabled = "false" THEN "disconnect" ELSE "connect",
          name |-> Head(entries).name]>>
       \o ExpectedCalls(Tail(entries))

\* The calls the pass in flight (or the last pass) has issued
IssuedCalls == storeHist.calls

\* C17: the calls a pass has issued are, in order, for each entry of its snapshot the
\* add-config call first and then connect if the entry's enabled flag is not false,
\* disconnect (and never connect) if it is; and issuing a call leaves the store as it is.
C17_AddThenConnectOrDisconnect ==
  /\ [](LET exp == ExpectedCalls(storeHist.snapshot)
        IN /\ Len(IssuedCalls) <= Len(exp)
           /\ IssuedCalls = SubSeq(exp, 1, Len(IssuedCalls)))
  /\ [][Len(storeHist'.calls) = Len(storeHist.calls) + 1
          => (mcpConfigStore' = mcpConfigStore /\ storeOrder' = storeOrder)]_vars

\* A finished pass over an enabled entry and a disabled one: add, connect for the
\* first; add, disconnect for the second, which is still in the store.
C17_Witness ==
  /\ ~mcpSyncInFlight.active
  /\ storeHist.snapshot = <<[name |-> "student_server_2022", enabled |-> "unset"],
                            [name |-> "faculty_server", enabled |-> "false"]>>
  /\ IssuedCalls = <<[op |-> "add", name |-> "student_server_2022"],
                     [op |-> "connect", name |-> "student_server_2022"],
                     [op |-> "add", name |-> "faculty_server"],
                     [op |-> "disconnect", name |-> "faculty_server"]>>
  /\ "faculty_server" \in DOMAIN mcpConfigStore

\* C18: a pass that is over has issued every call of every entry of its snapshot,
\* whatever calls failed; and an attempt whose child announced its URL ends with a
\* handle, whatever the initial sync's calls did.
C18_FailedCallsDoNotAbort ==
  /\ ~mcpSyncInFlight.active => IssuedCalls = ExpectedCalls(storeHist.snapshot)
  /\ \A a \in 1..Len(attempts) :
       (attempts[a].pc = "done" /\ opencodeBaseUrl = a) => attempts[a].result = a
  /\ \A a \in 1..Len(attempts) :
       attempts[a].pc = "syncing" => mcpSyncInFlight.active

\* Every call of the initial sync over two entries failed: all four calls were issued
\* and getOpencode's promise resolved with the handle.
C18_Witness ==
  /\ ~mcpSyncInFlight.active
  /\ Len(storeHist.snapshot) = 2
  /\ Len(storeHist.calls) = 4
  /\ storeHist.failures = 4
  /\ storeHist.fired = 0
  /\ attempts[1].pc = "done" /\ attempts[1].result = 1

\* C19: at most one debounce closure and at most one filesystem watcher exist.
C19_AtMostOneWatcher ==
  /\ Len(watchSlots) <= 1
  /\ Cardinality({k \in 1..Len(watchSlots) : watchSlots[k].watching}) <= 1

\* startMcpStoreWatcher was called twice and one watcher is installed.
C19_Witness ==
  /\ storeHist.watchRequests >= 2
  /\ Len(watchSlots) = 1 /\ watchSlots[1].watching

\* The timers pending over all debounce closures
PendingTimers ==
  LET RECURSIVE Sum(_)
      Sum(k) == IF k = 0 THEN 0 ELSE watchSlots[k].pending + Sum(k - 1)
  IN Sum(Len(watchSlots))

\* C20: at most one timer is pending; each burst of events for the store file (the
\* events from one that finds no timer pending up to the timer's fire) accounts for
\* exactly one reload, started by the fire; a reload starts only when a timer fires;
\* and an event for another filename changes neither the timer nor the reloads.
C20_OneReloadPerBurst ==
  /\ [](PendingTimers <= 1 /\ storeHist.bursts = storeHist.fired + PendingTimers)
  /\ [][reloads'.load > reloads.load
          => (storeHist'.fired = storeHist.fired + 1 /\ PendingTimers' = PendingTimers - 1)]_vars
  /\ [][(storeHist'.fsEvents = storeHist.fsEvents + 1
         /\ storeHist'.matching = storeHist.matching)
          => (watchSlots' = watchSlots /\ reloads' = reloads
              /\ storeHist'.fired = storeHist.fired)]_vars

\* Two events for the store file, the second while the timer of the first was pending,
\* and one reload.
C20_Witness ==
  /\ storeHist.matching = 2
  /\ storeHist.bursts = 1
  /\ storeHist.fired = 1
  /\ PendingTimers = 0

C24_OneOutcomeDecides ==
  \A a \in 1..Len(attempts) :
    /\ attempts[a].settles <= 1
    /\ attempts[a].settles = 1 <=> attempts[a].outcome # "none"
    /\ attempts[a].result > NullHandle => attempts[a].outcome = "url"
    /\ attempts[a].outcome = "url" =>
         \E k \in 1..Len(children) : children[k].by = a /\ children[k].st # "starting"
    /\ attempts[a].outcome \in {"timeout", "exited", "error", "port-error"} =>
         attempts[a].result = NullHandle
    /\ attempts[a].outcome = "exited" =>
         \E k \in 1..Len(children) :
           /\ children[k].by = a /\ children[k].st = "exited"
           /\ attempts[a].carried <=> children[k].output # ""
    /\ attempts[a].pc \in {"sync", "syncing"} => attempts[a].outcome = "url"

\* Three attempts ended in the three ways: a timeout, an exit after some output (the
\* rejection carries it), and a listening line that gave the caller its handle.
C24_Witness ==
  /\ \E a \in 1..Len(attempts) : attempts[a].outcome = "timeout"
  /\ \E a \in 1..Len(attempts) : attempts[a].outcome = "exited" /\ attempts[a].carried
  /\ \E a \in 1..Len(attempts) : attempts[a].outcome = "url" /\ attempts[a].result = a

\* The cached acquisition yielded a handle and the child behind it is dead.
DeadHandleCached ==
  /\ opencodePromise # NoPromise
  /\ attempts[opencodePromise].outcome = "url"
  /\ \E k \in 1..Len(children) :
       children[k].by = opencodePromise /\ children[k].st \in {"exited", "killed"}

\* C25: a call of getOpencode made while the cached handle's child is dead (it exited
\* after its startup, or close() killed it) starts a new attempt.
C25_DeadHandleDiscarded ==
  [][\A c \in Callers :
       (callers[c].st = "idle" /\ callers'[c].st = "waiting" /\ DeadHandleCached)
         => Len(attempts') = Len(attempts) + 1]_vars

\* C28: the prompt is submitted in the step in which the subscription opens, never
\* before and never again, and that same step enters the loop with the submission
\* still unsettled.
C28_SubscribeThenPromptOnce ==
  /\ [](pc \in {"idle", "acquire", "create", "model", "subscribe"} => promptState = "none")
  /\ [][/\ (promptState = "none" /\ promptState' # "none") =>
            (pc = "subscribe" /\ promptState' = "pending" /\ pc' = "loop")
        /\ (promptState # "none") =>
            (promptState' # "none" /\ (promptState' = "pending" => promptState = "pending"))
       ]_vars

\* The loop has written a delta of this session while the submission was pending.
C28_Witness ==
  /\ pc = "loop" /\ promptState = "pending"
  /\ Len(OfType(out, "delta")) = 1 /\ Len(inbound) = 1

\* Events of the loop that name this turn's session
OwnEvents == LET Own(e) == e.sessionID = sessionId IN SelectSeq(inbound, Own)

\* C29: the loop's delta and tool lines are those of the events that name this
\* session, the loop breaks only on an event that names it, and an assistant_error
\* line needs a rejected prompt or a session.error that names it.
C29_ForeignEventsIgnored ==
  /\ Len(OfType(LiveOut, "delta")) = Len(SelectSeq(OwnEvents, IsLiveDelta))
  /\ Len(OfType(LiveOut, "tool")) = Len(SelectSeq(OwnEvents, IsLiveTool))
  /\ hist.brokeOn \in {"none", sessionId}
  /\ OfType(out, "assistant_error") # <<>> =>
       \/ promptError # ""
       \/ \E i \in 1..Len(OwnEvents) : OwnEvents[i].type = "session.error"

\* C30: a delta written by the fallback is the text of a last message whose role is
\* assistant.
C30_FallbackTextIsAssistants ==
  (hist.fallback = "fetched" /\ OfType(PostOut, "delta") # <<>>) => hist.fbRole = "assistant"

\* C21: a request that named a provider is answered 200 only if the provider's base
\* name is in the caller's effective list, and when it is not the answer is 403 and
\* no connection to the provider was opened.
C21_ListingRequiresPermission ==
  (toolsReq.pc = "done" /\ nameOf(toolsReq.name) # "") =>
    /\ toolsReq.status = 200 => baseName(toolsReq.name) \in Range(allowedServers)
    /\ baseName(toolsReq.name) \notin Range(allowedServers) =>
         (toolsReq.status = 403 /\ ~toolsReq.connected)

\* The positions of the tools a non-elevated caller may see: owner unset or allowed
KeptPositions ==
  {i \in 1..Len(toolsReq.tools) :
     \/ extractToolServer(toolsReq.tools[i]) = ""
     \/ extractToolServer(toolsReq.tools[i]) \in Range(allowedServers)}

\* C22: the tools sent to FACULTY and ADMIN are the provider's tools unchanged; the
\* tools sent to any other role are exactly those whose owning provider is unset or
\* allowed, in the order the provider gave them.
C22_FilterKeepsAllowedInOrder ==
  toolsReq.status = 200 =>
    IF role \in {"FACULTY", "ADMIN"} THEN toolsReq.result = toolsReq.tools
    ELSE /\ Len(toolsReq.result) = Cardinality(KeptPositions)
         /\ \A i \in KeptPositions :
              toolsReq.result[Cardinality({j \in KeptPositions : j <= i})] = toolsReq.tools[i]

\* A student was sent one of two tools: the faculty tool was dropped, and the tool
\* whose id names no provider was kept.
C22_Witness ==
  /\ role = "STUDENT" /\ toolsReq.status = 200
  /\ toolsReq.tools = <<Tool(" faculty_server", <<"student_server_2022", "/", "x">>),
                        Tool("", <<"/", "x">>)>>
  /\ toolsReq.result = <<Tool("", <<"/", "x">>)>>

\* C26: a call that began after an earlier call had returned a pair returns that pair
\* and does not query the catalog; a call that ends absent leaves the cache as it was.
C26_MemoizedAfterFirstSuccess ==
  /\ [](\A c \in 1..MaxResolvers :
          (resolvers[c].st = "got" /\ resolvers[c].after # {}) =>
            (~resolvers[c].queried /\ resolvers[c].after = {resolvers[c].ret}))
  /\ [][\A c \in 1..MaxResolvers :
          (resolvers[c].st = "querying" /\ resolvers'[c].st = "got"
             /\ resolvers'[c].ret = NoModel)
            => resolvedDefaultChatModel' = resolvedDefaultChatModel]_vars

\* The least element of a non-empty set of positions
Least(S) == CHOOSE i \in S : \A j \in S : i <= j

\* C27: a call that queried the catalog and returned a pair chose the provider with
\* the configured id if there is one, else the first whose id (or name, when it has
\* no id) matches the runtime-name pattern, else the first provider; and within it
\* the model with the configured id, else the first whose name matches the preferred
\* pattern, else the first whose id matches it, else the declared default if listed,
\* else the first model.  It returned absent only for an empty catalog, a chosen
\* provider without id, or no model with an id.
C27_PriorityOrder ==
  \A c \in 1..MaxResolvers :
    (resolvers[c].st = "got" /\ resolvers[c].queried) =>
      LET ps == resolvers[c].cat.providers
          ms == LET HasId(m) == m.id # "" IN SelectSeq(resolvers[c].cat.models, HasId)
          dflt == resolvers[c].cat.default
          byId == {i \in 1..Len(ps) : ps[i].id = CHAT_DEFAULT_PROVIDER_ID}
          byPattern == {i \in 1..Len(ps) :
                          IsRuntimeName(IF ps[i].id # "" THEN ps[i].id ELSE ps[i].name)}
          p == IF byId # {} THEN Least(byId) ELSE IF byPattern # {} THEN Least(byPattern) ELSE 1
          mId == {i \in 1..Len(ms) : ms[i].id = CHAT_DEFAULT_MODEL_ID}
          mName == {i \in 1..Len(ms) : IsPreferredName(ms[i].name)}
          mIdPattern == {i \in 1..Len(ms) : IsPreferredName(ms[i].id)}
          mDefault == {i \in 1..Len(ms) : dflt # "" /\ ms[i].id = dflt}
          m == IF mId # {} THEN Least(mId)
               ELSE IF mName # {} THEN Least(mName)
               ELSE IF mIdPattern # {} THEN Least(mIdPattern)
               ELSE IF mDefault # {} THEN Least(mDefault)
               ELSE 1
      IN IF ps = <<>> \/ ps[p].id = "" \/ ms = <<>> THEN resolvers[c].ret = NoModel
         ELSE resolvers[c].ret = [providerID |-> ps[p].id, modelID |-> ms[m].id]

\* Neither configured id is in the catalog: the second provider was chosen because
\* its id matches the runtime-name pattern, and its declared default, the second
\* model, was chosen because no model matches the preferred pattern.
C27_Witness ==
  \E c \in 1..MaxResolvers :
    /\ resolvers[c].st = "got" /\ resolvers[c].queried
    /\ resolvers[c].cat =
         [providers |-> <<[id |-> "anthropic", name |-> "Anthropic"],
                          [id |-> "OpenCode Zen", name |-> ""]>>,
          models |-> <<[id |-> "m2", name |-> "plain"], [id |-> "m3", name |-> "plain"]>>,
          default |-> "m3"]
    /\ resolvers[c].ret = [providerID |-> "OpenCode Zen", modelID |-> "m3"]

\* C35: the memoized pair, once assigned, is never assigned again, and all the calls
\* that returned a pair returned the same one.
C35_CacheWriteOnce ==
  /\ [](\A c, d \in 1..MaxResolvers :
          (resolvers[c].st = "got" /\ resolvers[d].st = "got"
             /\ resolvers[c].ret # NoModel /\ resolvers[d].ret # NoModel)
            => resolvers[c].ret = resolvers[d].ret)
  /\ [][resolvedDefaultChatModel # NoModel
          => resolvedDefaultChatModel' = resolvedDefaultChatModel]_vars

\* The children that are running
Alive == {k \in 1..Len(children) : children[k].st \in {"starting", "listening"}}

\* C38: at most one spawned child is running, and the process close() would kill is
\* the child of the attempt whose handle is cached.
C38_AtMostOneChildAlive ==
  /\ Cardinality(Alive) <= 1
  /\ (opencodePromise # NoPromise /\ attempts[opencodePromise].result > NullHandle) =>
       (opencodeProc # NoChild /\ children[opencodeProc].by = opencodePromise)

\* The delta and tool lines of a sequence of outward lines
Streamed(o) == LET Is(x) == x.type \in {"delta", "tool"} IN SelectSeq(o, Is)

\* The inbound events that cause a line
Causes == LET Is(e) == IsLiveDelta(e) \/ IsLiveTool(e) IN SelectSeq(inbound, Is)

\* C31: the delta and tool lines written by the loop are, one for one and in order,
\* the lines of the inbound events that caused them; what was written when the loop
\* ended is never changed afterwards, so the fallback delta and the tool lines of the
\* completeness pass come after it.
C31_OrderPreserved ==
  /\ [](/\ Len(Streamed(LiveOut)) = Len(Causes)
        /\ \A i \in 1..Len(Causes) :
             Streamed(LiveOut)[i] = (IF IsLiveDelta(Causes[i]) THEN DeltaOut(Causes[i].delta)
                                     ELSE ToolOut(Causes[i])))
  /\ [][hist.loopOut >= 0 =>
          /\ hist'.loopOut = hist.loopOut
          /\ Len(out') >= hist.loopOut
          /\ SubSeq(out', 1, hist.loopOut) = SubSeq(out, 1, hist.loopOut)]_vars

\* The loop wrote a tool line and then a delta, in the order of their two events, and
\* the completeness pass added a tool line after them.
C31_Witness ==
  /\ pc = "closed"
  /\ Len(Causes) = 2 /\ IsLiveTool(Causes[1]) /\ IsLiveDelta(Causes[2])
  /\ Len(OfType(PostOut, "tool")) >= 1

\* C37: when the request supplied no session id and session creation throws or returns
\* no id, the outward sequence is exactly `error` then `done`: no `meta` is written, no
\* subscription is opened and no prompt is submitted
C37_NoSessionNoTurn ==
  hist.created \in {"threw", "no-id"} =>
    /\ OfType(out, "meta") = <<>>
    /\ promptState = "none"
    /\ pc \in {"model", "closed"}
    /\ pc = "closed" => /\ Len(out) = 2
                        /\ out[1].type = "error"
                        /\ out[2] = DoneOut

\* C36: the STUDENT denial instruction is appended to the system instructions only for
\* the most restricted role: the body built for a turn whose derived role is FACULTY or
\* ADMIN never carries it, whether or not a tool-exposure policy is configured
C36_DenialOnlyForStudent ==
  (polPc = "built" /\ role \in {"FACULTY", "ADMIN"}) =>
    "answering-for-a-STUDENT" \notin Range(body.system)

\* C32: every turn that emitted `meta` eventually emits `done` and closes once its
\* cancellation signal has fired (deadline or disconnect), whatever the backing process
\* does: no session-idle event, a prompt submission that never settles, a message-list
\* fetch that never returns
C32_CancelledTurnCloses ==
  (OfType(out, "meta") # <<>> /\ signalAborted) ~> (closed /\ out[Len(out)] = DoneOut)

\* C33: a watcher-triggered reload that succeeds while the backing process is acquired is
\* followed by a sync pass that reads the reloaded entries: when its callback reaches
\* syncMcpFromStoreIntoOpencode, the pass that serves it has the reloaded entries as its
\* snapshot, also when another pass was in flight at that moment (a reload that left no
\* entries has nothing to be read)
C33_ReloadSyncReadsReloaded ==
  [][(reloads'.sync = reloads.sync + 1 /\ StoreEntries' # <<>>) =>
       (mcpSyncInFlight'.active /\ storeHist'.snapshot = StoreEntries')]_vars

\* C34: a replace-reload of the store is atomic with respect to every other operation:
\* whenever a load with replace has run (at start-up or from the watcher), what any
\* handler, sync pass or policy evaluation can see next is either the map as it was (the
\* file gave no servers) or exactly the accepted entries of the file read, in its order,
\* never a map that was cleared and not, or only partly, repopulated
C34_ReplaceReloadAtomic ==
  [][(reloads'.load = reloads.load - 1 \/ (bootPc = "load" /\ bootPc' = "watch")) =>
       IF ~lastRead'.got THEN UNCHANGED <<mcpConfigStore, storeOrder>>
       ELSE LET k == lastRead'.kept
            IN /\ storeOrder' = [i \in 1..Len(k) |-> k[i].name]
               /\ mcpConfigStore' = [n \in {k[i].name : i \in 1..Len(k)} |->
                     [enabled |-> (CHOOSE e \in Range(k) : e.name = n).enabled]]]_vars

\* A replace-reload dropped an entry and set others while a sync pass, started on the
\* older entries, is in flight
C34_Witness ==
  /\ mcpSyncInFlight.active
  /\ Len(storeOrder) = 2
  /\ \E i \in 1..Len(storeHist.snapshot) : storeHist.snapshot[i].name \notin DOMAIN mcpConfigStore

\* The map as the add request found it
MapAsBefore ==
  /\ mcpConfigStore = admin.before.store
  /\ storeOrder = admin.before.order

====
